---- MODULE Spec2Model ----
(***************************************************************************)
(* A model of the CADL compiler's program object (program.ts), its symbol  *)
(* tables and binder (binder.ts), its parser (parser.ts) and its loader:   *)
(* the diagnostics sink with #suppress handling, SymbolTable.set,          *)
(* reportDuplicateSymbols, the file loader, the state registry,            *)
(* bindSourceFile and bindJsSourceFile, parse, and the checker's detection *)
(* of recursive base types.                                                *)
(***************************************************************************)
EXTENDS Naturals, Integers, Sequences, FiniteSets, TLC

VARIABLES
    diagnostics,   \* program.ts: const diagnostics: Diagnostic[]
    error,         \* program.ts: let error = false
    raised,        \* an exception has propagated out of an operation
    directives,    \* the directive list attached to each node of the syntax tree
    calls,         \* number of API calls made so far (bounded)
    lastCall,      \* the last reportDiagnostic call: its argument and the list before it
    tables,        \* the symbol tables: each a Map of names with its duplicates Map
    usingDuplicate,   \* the symbols of kind "using" whose duplicate flag is set
    duplicateSymbols, \* program.ts: const duplicateSymbols = new Set<Sym>()
    symLog,        \* every SymbolTable.set and reportDuplicateSymbols call so far, in order
    stateMaps,     \* program.ts: const stateMaps = new Map<Symbol, Map<any, any>>()
    stateSets,     \* program.ts: const stateSets = new Map<Symbol, Set<any>>()
    heap,          \* the content of each container object created so far
    handles,       \* the containers handed out: key, kind and object of each return
    written,       \* per key and kind, what callers wrote through the returned container
    lastReturn,    \* the last stateMap/stateSet return: the container's content then,
                   \* and what had been written for its key and kind
    pc,            \* createProgram: the step it has reached
    stack,         \* the loadImports calls in progress: file and statement index
    seenSourceFiles,  \* program.ts: const seenSourceFiles = new Set<string>()
    sourceFiles,   \* program.sourceFiles: the statements of each loaded script
    jsSourceFiles, \* program.jsSourceFiles: the paths it has an entry for
    counts,        \* per path: host.readFile, parse, bind, host.getJsImport, bindJsSourceFile calls
    validateCbs,   \* the $onValidate callbacks registered with the program, in order
    processed,     \* the import statements loadImports has handled
    compilerCheck  \* "none" until loadMain resolves the local compiler, then "ok" when
                   \* none resolves or it is the running one, else "mismatch"

diagVars == <<diagnostics, error, raised, directives, calls, lastCall>>
symVars == <<tables, usingDuplicate, duplicateSymbols, symLog>>
regVars == <<stateMaps, stateSets, heap, handles, written, lastReturn>>
loadVars == <<pc, stack, seenSourceFiles, sourceFiles, jsSourceFiles, counts, validateCbs,
              processed, compilerCheck>>

VARIABLES
    bindAst,       \* the nodes of the script being bound, in the order bindNode visits them
    bindNext,      \* the next node bindNode is called on
    bindScope,     \* binder.ts: let scope, currentNamespace, fileNamespace
    bindFrames,    \* the bindNode calls in progress on nodes with a scope
    nodeSymbol,    \* node.symbol of each node
    nodeExports,   \* node.exports of each node: a table object, or none
    nodeLocals,    \* node.locals of each node: a table object, or none
    bindTables,    \* the symbol table objects createSymbolTable has made
    bindLog,       \* per namespace statement bound: the binding found for its name, the
                   \* table receiving the declarations of its scope and what that held
    bindPhase      \* "idle", "binding" while bindSourceFile runs, then "bound"

bindVars == <<bindAst, bindNext, bindScope, bindFrames, nodeSymbol, nodeExports, nodeLocals,
              bindTables, bindLog, bindPhase>>

VARIABLES
    jsModule,      \* sourceFile.esmExports: the module's exports, in Object.entries order
    jsNext,        \* the next entry of the loop of bindJsSourceFile
    jsTables,      \* the symbol table objects made so far; the first is sourceFile.exports
    jsNamespaceNodes,  \* the namespace nodes synthesized so far (all are in `namespaces`)
    jsPhase        \* "idle", "binding" inside bindJsSourceFile, then "bound"

jsVars == <<jsModule, jsNext, jsTables, jsNamespaceNodes, jsPhase>>

VARIABLES
    parseInput,    \* the tokens the scanner yields for the text given to parse, in order
    parseOutput    \* what parse(code) has returned, once it has

parseVars == <<parseInput, parseOutput>>

VARIABLES
    checkInput,        \* the models of the program checked: heritage links and one property
    checkNext,         \* the next model, in source order, whose heritage is to be finalized
    baseModel,         \* the finalized base of each model checked, 0 for none
    cutLinks,          \* the models whose heritage link was cut at a cycle point
    checkDiagnostics,  \* the diagnostics of the checker
    propertyType       \* the model the property's type resolved to, 0 before

checkVars == <<checkInput, checkNext, baseModel, cutLinks, checkDiagnostics, propertyType>>

VARIABLES
    usingFile,     \* the file whose usings are set: the exports of the namespaces, the
                   \* namespaces its using statements name, in order, and the names it refers to
    usingPhase     \* "idle", "bound", then "usings", "reported" and "checked"

usingVars == <<usingFile, usingPhase>>

VARIABLES
    serviceDetails,    \* rest library: programServiceDetails.get(program)
    serviceApplied     \* the service decorators applied so far: each with the details
                       \* and the number of diagnostics before the call

serviceVars == <<serviceDetails, serviceApplied>>

VARIABLES
    declarations,     \* the model statements of the program checked, by name
    types,            \* the model types created so far; the identity of a type is its index
    symbolLinks,      \* per declaration: declaredType and instantiations by argument (0: none)
    checking,         \* the model statements being checked, innermost last: type and position
    nextStatement,    \* the index in StatementOrder of the next statement to check, 0 when idle
    decoratorCalls,   \* the targets the decorator was invoked with, in order
    typeDiagnostics   \* the codes the checker reported

modelVars == <<declarations, types, symbolLinks, checking, nextStatement, decoratorCalls,
               typeDiagnostics>>

typeVars == <<usingVars, serviceVars, modelVars>>

restVars == <<bindVars, jsVars, parseVars, checkVars, typeVars>>

vars == <<diagVars, symVars, regVars, loadVars, restVars>>

----------------------------------------------------------------------------
(* Bounds *)
MaxCalls == 2
MaxSymOps == 4
MaxObjects == 5
MaxStmts == 2
MaxImportedStmts == 1
MaxItems == 3
MaxExports == 3
MaxTokens == 4
MaxModels == 3
MaxUsings == 3
MaxDecorators == 3
MaxSpreads == 2
MaxDepth == 3

----------------------------------------------------------------------------
(* The binder before bindSourceFile is called. *)
BindIdle ==
    /\ bindAst = <<>>
    /\ bindNext = 0
    /\ bindScope = [scope |-> 0, currentNamespace |-> 0, fileNamespace |-> 0]
    /\ bindFrames = <<>>
    /\ nodeSymbol = <<>>
    /\ nodeExports = <<>>
    /\ nodeLocals = <<>>
    /\ bindTables = <<>>
    /\ bindLog = <<>>
    /\ bindPhase = "idle"

\* No external module is being bound.
JsIdle ==
    /\ jsModule = <<>>
    /\ jsNext = 0
    /\ jsTables = <<>>
    /\ jsNamespaceNodes = <<>>
    /\ jsPhase = "idle"

\* parse has not been called.
NotParsed == [done |-> FALSE]
ParseIdle ==
    /\ parseInput = <<>>
    /\ parseOutput = NotParsed

\* The checker has no program.
NoProperty == [owner |-> 0, target |-> 0]
CheckIdle ==
    /\ checkInput = [heritage |-> <<>>, property |-> NoProperty]
    /\ checkNext = 1
    /\ baseModel = <<>>
    /\ cutLinks = {}
    /\ checkDiagnostics = <<>>
    /\ propertyType = 0

\* No file has its usings set.
NoFile == [exports |-> [n \in {"N", "M"} |-> {}], usings |-> <<>>, references |-> {}]
UsingIdle ==
    /\ usingFile = NoFile
    /\ usingPhase = "idle"

\* getServiceDetails: serviceDetails = {} for a program without an entry.
NoServiceDetails ==
    [namespace |-> 0, title |-> "undefined", version |-> "undefined", host |-> "undefined"]
ServiceIdle ==
    /\ serviceDetails = NoServiceDetails
    /\ serviceApplied = <<>>

\* No program is being checked.
ModelIdle ==
    /\ declarations = <<>>
    /\ types = <<>>
    /\ symbolLinks = <<>>
    /\ checking = <<>>
    /\ nextStatement = 0
    /\ decoratorCalls = <<>>
    /\ typeDiagnostics = <<>>

TypeIdle == UsingIdle /\ ServiceIdle /\ ModelIdle

RestIdle == BindIdle /\ JsIdle /\ ParseIdle /\ CheckIdle /\ TypeIdle

----------------------------------------------------------------------------
(* Values *)
Undefined == "undefined"

\* A directive expression node as the parser builds it: `#name arg...`.
Directive(name, args) == [name |-> name, args |-> args]
Suppress(code) == Directive("suppress", <<code>>)
SuppressNoArgs == Directive("suppress", <<>>)
UnknownDirective == Directive("foo", <<>>)

\* Diagnostic targets.  chain is the path from the target's node to the root,
\* each element the node's id and its directive list.
Target(kind, node, idx, chain) == [kind |-> kind, node |-> node, idx |-> idx, chain |-> chain]
NoTarget == Target("NoTarget", 0, 0, <<>>)
FileTarget == Target("file", 0, 0, <<>>)

Diagnostic(code, severity, target) == [code |-> code, severity |-> severity, target |-> target]

----------------------------------------------------------------------------
(* The syntax tree of the diagnostics scenarios: node 1 is the script, 2 a  *)
(* namespace in it, 3 a model in 2, 4 a model in the script.                *)
Nodes == {1, 2, 3, 4}
parent(n) == CASE n = 1 -> 0 [] n = 2 -> 1 [] n = 3 -> 2 [] n = 4 -> 1

RECURSIVE ChainFrom(_, _)
ChainFrom(dirs, n) ==
    IF n = 0 THEN <<>>
    ELSE <<[node |-> n, directives |-> dirs[n]]>> \o ChainFrom(dirs, parent(n))

----------------------------------------------------------------------------
(* program.ts: parseDirective, findDirectiveSuppressingCode,                *)
(* findDirectiveSuppressingOnNode, getNode, shouldSuppress, reportDiagnostic *)

\* parseDirective(node): the Directive object, or a throw for any name but suppress.
parseDirective(d) ==
    IF d.name = "suppress"
    THEN [threw |-> FALSE,
          name |-> "suppress",
          code |-> IF Len(d.args) >= 1 THEN d.args[1] ELSE Undefined]
    ELSE [threw |-> TRUE, name |-> d.name, code |-> Undefined]

\* findDirectiveSuppressingCode: directives.map(parseDirective) runs over the
\* whole list first, then the first suppress directive naming the code is returned.
\* Result: 0 for undefined, -1 for a throw, else the index of the directive.
findDirectiveSuppressingCode(code, ds) ==
    IF \E j \in 1..Len(ds) : parseDirective(ds[j]).threw THEN -1
    ELSE IF \E j \in 1..Len(ds) : parseDirective(ds[j]).code = code
         THEN CHOOSE j \in 1..Len(ds) :
                 /\ parseDirective(ds[j]).code = code
                 /\ \A k \in 1..(j-1) : parseDirective(ds[k]).code # code
         ELSE 0

\* findDirectiveSuppressingOnNode: walk from the node up the parent links.
RECURSIVE findOnChain(_, _, _)
findOnChain(code, chain, i) ==
    IF i > Len(chain) THEN [status |-> "none", node |-> 0, idx |-> 0]
    ELSE LET r == findDirectiveSuppressingCode(code, chain[i].directives)
         IN IF r = -1 THEN [status |-> "throw", node |-> chain[i].node, idx |-> 0]
            ELSE IF r > 0 THEN [status |-> "found", node |-> chain[i].node, idx |-> r]
            ELSE findOnChain(code, chain, i + 1)

findDirectiveSuppressingOnNode(code, chain) == findOnChain(code, chain, 1)

\* getNode(target): a symbol or type with a node gives that node, a decorator
\* symbol or an intrinsic type gives undefined, a node gives itself.
getNodeDefined(target) == target.kind \in {"type", "node", "directive", "entry"}

SuppressError(found) ==
    Diagnostic("suppress-error", "error", Target("directive", found.node, found.idx, <<>>))

\* shouldSuppress(diagnostic): the diagnostics it pushes itself, its result,
\* and whether it threw.
shouldSuppress(d) ==
    IF d.code = "error"
    THEN [pushed |-> <<d>>, result |-> FALSE, threw |-> FALSE]
    ELSE IF d.target.kind = "NoTarget" \/ d.target.kind = "file" \/ ~getNodeDefined(d.target)
    THEN [pushed |-> <<>>, result |-> FALSE, threw |-> FALSE]
    ELSE LET suppressing == findDirectiveSuppressingOnNode(d.code, d.target.chain)
         IN CASE suppressing.status = "throw" ->
                    [pushed |-> <<>>, result |-> FALSE, threw |-> TRUE]
              [] suppressing.status = "found" /\ d.severity = "error" ->
                    [pushed |-> <<SuppressError(suppressing)>>, result |-> FALSE, threw |-> FALSE]
              [] suppressing.status = "found" /\ d.severity # "error" ->
                    [pushed |-> <<>>, result |-> TRUE, threw |-> FALSE]
              [] OTHER ->
                    [pushed |-> <<>>, result |-> FALSE, threw |-> FALSE]

\* reportDiagnostic with the severity test of its first statement dropped.
reportDiagnostic_AnySeveritySetsError(st, d) ==
    LET s == shouldSuppress(d)
    IN IF s.threw
       THEN [diagnostics |-> st.diagnostics, error |-> TRUE, raised |-> TRUE]
       ELSE [diagnostics |-> st.diagnostics \o s.pushed \o (IF s.result THEN <<>> ELSE <<d>>),
             error |-> TRUE,
             raised |-> st.raised]

\* reportDiagnostic(diagnostic) applied to the sink st = [diagnostics, error, raised].
reportDiagnostic(st, d) ==
    LET s == shouldSuppress(d)
        err == st.error \/ d.severity = "error"
    IN IF s.threw
       THEN [diagnostics |-> st.diagnostics, error |-> err, raised |-> TRUE]
       ELSE [diagnostics |-> st.diagnostics \o s.pushed \o (IF s.result THEN <<>> ELSE <<d>>),
             error |-> err,
             raised |-> st.raised]

\* reportDiagnostics(list): reportDiagnostic on each in order; a throw ends the loop.
RECURSIVE reportDiagnostics(_, _)
reportDiagnostics(st, ds) ==
    IF ds = <<>> \/ st.raised THEN st
    ELSE reportDiagnostics(reportDiagnostic(st, Head(ds)), Tail(ds))

Sink == [diagnostics |-> diagnostics, error |-> error, raised |-> raised]

hasError == error

----------------------------------------------------------------------------
(* messages.ts is not part of the sources at hand: the severity that        *)
(* createDiagnostic gives the compiler's own codes used in this model.      *)
SeverityOf(code) == "error"

createDiagnostic(code, target) == Diagnostic(code, SeverityOf(code), target)

\* parser.ts: parseDirectiveExpression reports unknown-directive for every
\* directive whose name is not suppress and still returns the directive node;
\* the statement or list item the directive precedes carries it.  These are
\* the parse diagnostics of the tree, in source order (nodes 2, 3, 4).
RECURSIVE UnknownDirectiveDiagnostics(_, _)
UnknownDirectiveDiagnostics(n, ds) ==
    IF ds = <<>> THEN <<>>
    ELSE (IF Head(ds).name # "suppress"
          THEN <<createDiagnostic("unknown-directive", Target("file", n, 0, <<>>))>>
          ELSE <<>>) \o UnknownDirectiveDiagnostics(n, Tail(ds))

parseDiagnostics(dirs) ==
    UnknownDirectiveDiagnostics(2, dirs[2]) \o UnknownDirectiveDiagnostics(3, dirs[3])
        \o UnknownDirectiveDiagnostics(4, dirs[4])

----------------------------------------------------------------------------
(* binder.ts: SymbolTable, a Map<string, Sym> with a duplicates Map         *)
Names == {"A", "B"}
Symbols == {1, 2, 3}
TableIds == {1, 2}
None == 0

\* Symbol 3 is a using symbol, as are the symbols setUsingsForFile makes
\* (numbered from UsingBase); the others are type symbols.
UsingBase == 200
SymKind(s) == IF s = 3 \/ s >= UsingBase THEN "using" ELSE "type"

EmptyTable == [map |-> [n \in Names |-> None], duplicates |-> <<>>]

\* duplicates.get(existing): the index of the entry keyed by the symbol, or 0.
DuplicatesIndex(dups, existing) ==
    IF \E i \in 1..Len(dups) : dups[i].key = existing
    THEN CHOOSE i \in 1..Len(dups) : dups[i].key = existing
    ELSE 0

\* SymbolTable.set with the collision branch replaced by Map.set.
SymbolTableSet_Overwrite(tbl, key, value) ==
    [map |-> [tbl.map EXCEPT ![key] = value], duplicates |-> tbl.duplicates, marked |-> None]

\* SymbolTable.set(key, value): the table after the call, and the using symbol
\* whose duplicate flag the call sets (None when it sets none).
SymbolTableSet(tbl, key, value) ==
    LET existing == tbl.map[key]
    IN IF existing = None
       THEN [map |-> [tbl.map EXCEPT ![key] = value],
             duplicates |-> tbl.duplicates,
             marked |-> None]
       ELSE LET i == DuplicatesIndex(tbl.duplicates, existing)
            IN [map |-> tbl.map,
                duplicates |->
                    IF i # 0
                    THEN [tbl.duplicates EXCEPT ![i].set = @ \cup {value}]
                    ELSE Append(tbl.duplicates, [key |-> existing, set |-> {existing, value}]),
                marked |-> IF SymKind(existing) = "using" THEN existing ELSE None]

----------------------------------------------------------------------------
(* program.ts: reportDuplicateSymbols(symbols).  `symbols.duplicates` is a   *)
(* Map, so `for (const symbol of symbols.duplicates)` visits its entries:    *)
(* each `symbol` is a fresh [key, set] pair, never a member of               *)
(* duplicateSymbols, with no name, no node, no directives and no parent.     *)
EntryTarget(key, id) == Target("entry", key, id, <<>>)

RECURSIVE reportDuplicateSymbolsFrom(_, _, _)
reportDuplicateSymbolsFrom(st, dupSyms, entries) ==
    IF entries = <<>> \/ st.raised THEN [sink |-> st, duplicateSymbols |-> dupSyms]
    ELSE LET symbol == EntryTarget(Head(entries).key, Cardinality(dupSyms) + 1)
         IN IF symbol \in dupSyms
            THEN reportDuplicateSymbolsFrom(st, dupSyms, Tail(entries))
            ELSE reportDuplicateSymbolsFrom(
                     reportDiagnostic(st, createDiagnostic("duplicate-symbol", symbol)),
                     dupSyms \cup {symbol},
                     Tail(entries))

reportDuplicateSymbols(st, dupSyms, tbl) == reportDuplicateSymbolsFrom(st, dupSyms, tbl.duplicates)

SymIdle ==
    /\ tables = [t \in TableIds |-> EmptyTable]
    /\ usingDuplicate = {}
    /\ duplicateSymbols = {}
    /\ symLog = <<>>

----------------------------------------------------------------------------
(* program.ts: the state registry, stateMap(key) and stateSet(key).         *)
(* Containers are objects: the registry holds object ids, heap their        *)
(* content.  A Map's content gives each target its value, a Set's content   *)
(* marks each member Present.                                               *)
StateKeys == {"k1", "k2"}
RegTargets == {"t1", "t2"}
RegValues == {"v1"}
Absent == "absent"
Present == "present"

EmptyContainer == [t \in RegTargets |-> Absent]

\* stateMap without the stateMaps.set(key, m) of its if branch.
stateMap_NotRegistered(registry, key, fresh) ==
    IF registry[key] = None
    THEN [registry |-> registry, container |-> fresh, created |-> TRUE]
    ELSE [registry |-> registry, container |-> registry[key], created |-> FALSE]

\* stateMap(key) on the registry stateMaps; fresh is the object `new Map()` gives.
stateMap(registry, key, fresh) ==
    IF registry[key] = None
    THEN [registry |-> [registry EXCEPT ![key] = fresh], container |-> fresh, created |-> TRUE]
    ELSE [registry |-> registry, container |-> registry[key], created |-> FALSE]

\* stateSet(key) on the registry stateSets; fresh is the object `new Set()` gives.
stateSet(registry, key, fresh) ==
    IF registry[key] = None
    THEN [registry |-> [registry EXCEPT ![key] = fresh], container |-> fresh, created |-> TRUE]
    ELSE [registry |-> registry, container |-> registry[key], created |-> FALSE]

NoReturn ==
    [valid |-> FALSE, first |-> FALSE, key |-> "", kind |-> "", object |-> None,
     content |-> EmptyContainer, expected |-> EmptyContainer]

RegIdle ==
    /\ stateMaps = [k \in StateKeys |-> None]
    /\ stateSets = [k \in StateKeys |-> None]
    /\ heap = <<>>
    /\ handles = {}
    /\ written = [c \in StateKeys \X {"map", "set"} |-> EmptyContainer]
    /\ lastReturn = NoReturn

----------------------------------------------------------------------------
(* program.ts: the loader.  The file system of the host: a main script, a   *)
(* script a.cadl next to it, a directory dirA whose package main is a.cadl, *)
(* the standard library's lib.cadl, an external module x.js and the package *)
(* of an emitter.                                                           *)
MainPath == "/p/main.cadl"
APath == "/p/a.cadl"
LibPath == "/lib/main.cadl"
JsPath == "/p/x.js"
EmitterPath == "/p/node_modules/emitter/index.js"
CadlPaths == {MainPath, APath, LibPath}
JsPaths == {JsPath, EmitterPath}

\* Statements: an import with its specifier and directives, or a declaration.
Import(specifier, dirs) == [kind |-> "ImportStatement", path |-> specifier, directives |-> dirs]
Declaration == [kind |-> "ModelStatement", path |-> "", directives |-> <<>>]

\* sourceFiles.get(path) of a path that was never entered.
NotLoaded == <<[kind |-> "undefined", path |-> "", directives |-> <<>>]>>

Statements ==
    { Import("./a.cadl", <<>>), Import("./main.cadl", <<>>), Import("./dirA", <<>>),
      Import("./x.js", <<>>), Import("nolib", <<>>), Import("nolib", <<UnknownDirective>>),
      Import("./x.txt", <<>>), Declaration }

SeqsUpTo(S, n) == UNION { [1..k -> S] : k \in 0..n }

\* What host.readFile can give for a path.
Contents(path) ==
    IF path = LibPath THEN { <<Import("./x.js", <<>>), Declaration>> }
    ELSE IF path = MainPath THEN SeqsUpTo(Statements, MaxStmts)
    ELSE SeqsUpTo(Statements, MaxImportedStmts)

\* loadImports: the target of an import specifier and the branch it takes.
\* Relative specifiers are resolved against the directory of the importing
\* file; any other is looked up as a node module, here never installed.
ResolveImport(specifier) ==
    CASE specifier = "./a.cadl" -> [branch |-> "cadl", target |-> APath]
      [] specifier = "./main.cadl" -> [branch |-> "cadl", target |-> MainPath]
      [] specifier = "./dirA" -> [branch |-> "directory", target |-> "/p/dirA"]
      [] specifier = "./x.js" -> [branch |-> "js", target |-> JsPath]
      [] specifier = "./x.txt" -> [branch |-> "invalid", target |-> "/p/x.txt"]
      [] OTHER -> [branch |-> "MODULE_NOT_FOUND", target |-> ""]

\* loadDirectory: resolve(dir, pkg.cadlMain ?? "main.cadl").
DirectoryMain(dir) ==
    CASE dir = "/p/dirA" -> APath [] dir = "/p" -> MainPath [] OTHER -> LibPath

PathIndex(path) == CASE path = MainPath -> 1 [] path = APath -> 2 [] OTHER -> 3

\* The i-th statement of a script as a diagnostic target: its parent is the script.
StatementTarget(path, i, stmt) ==
    Target("node", 10 * PathIndex(path) + i, 0,
           << [node |-> 10 * PathIndex(path) + i, directives |-> stmt.directives],
              [node |-> 10 * PathIndex(path), directives |-> <<>>] >>)

\* parser.ts, parseCadlScriptItemList: the parse diagnostics of a statement
\* list: unknown-directive for each directive that is not suppress, and
\* import-first for an import that follows a declaration.
RECURSIVE scriptParseDiagnostics(_, _, _, _)
scriptParseDiagnostics(path, stmts, i, seenDecl) ==
    IF i > Len(stmts) THEN <<>>
    ELSE UnknownDirectiveDiagnostics(10 * PathIndex(path) + i, stmts[i].directives)
         \o (IF stmts[i].kind = "ImportStatement" /\ seenDecl
             THEN <<createDiagnostic("import-first", Target("file", 10 * PathIndex(path) + i, 0, <<>>))>>
             ELSE <<>>)
         \o scriptParseDiagnostics(path, stmts, i + 1,
                                   seenDecl \/ stmts[i].kind # "ImportStatement")

Bump(c, kind, path) == [c EXCEPT ![<<kind, path>>] = @ + 1]

\* The loader's state as one record.
Loader ==
    [stack |-> stack, seen |-> seenSourceFiles, files |-> sourceFiles, js |-> jsSourceFiles,
     counts |-> counts, validateCbs |-> validateCbs, sink |-> Sink]

\* util.ts doIO is not part of the sources at hand: a failed host call reports
\* a diagnostic at the diagnosticTarget (NoTarget when none) and gives undefined.
doIOFailure(L, code, target) ==
    [L EXCEPT !.sink = reportDiagnostic(L.sink, createDiagnostic(code, target))]

\* loadCadlScript(file): throw on a path already in sourceFiles, else parse,
\* report the parse diagnostics, enter the script, bind it, start loadImports.
loadCadlScript(L, path, content) ==
    IF L.files[path] # NotLoaded
    THEN [L EXCEPT !.sink.raised = TRUE]
    ELSE LET sink == reportDiagnostics(L.sink, scriptParseDiagnostics(path, content, 1, FALSE))
         IN IF sink.raised THEN [L EXCEPT !.sink = sink, !.counts = Bump(@, "parse", path)]
            ELSE [L EXCEPT !.sink = sink,
                           !.counts = Bump(Bump(@, "parse", path), "bind", path),
                           !.files[path] = content,
                           !.stack = Append(@, [path |-> path, i |-> 1])]

\* The seen test of loadCadlFile, always false.
AlreadySeen_Never(seen, path) == FALSE

\* loadCadlFile: if (seenSourceFiles.has(path)) return;
AlreadySeen(seen, path) == path \in seen

\* loadCadlFile(path, diagnosticTarget): the states it can end in, one per
\* result of host.readFile.
loadCadlFile(L, path, target) ==
    IF AlreadySeen(L.seen, path) THEN {L}
    ELSE LET L1 == [L EXCEPT !.seen = @ \cup {path}, !.counts = Bump(@, "readFile", path)]
         IN {doIOFailure(L1, "file-not-found", target)}
              \cup {loadCadlScript(L1, path, content) : content \in Contents(path)}

\* loadDirectory(dir, diagnosticTarget)
loadDirectory(L, dir, target) == loadCadlFile(L, DirectoryMain(dir), target)

\* binder.ts bindJsSourceFile(sourceFile): a fresh exports table, one decorator
\* symbol per $ function, and program.onValidate for $onValidate.  The module
\* x.js exports $dec and $onValidate.
bindJsSourceFile(L, path) ==
    [L EXCEPT !.counts = Bump(@, "bindJs", path),
              !.validateCbs = Append(@, path)]

\* loadJsFile(path, diagnosticTarget, bindingOptions): one state per result of
\* host.getJsImport when the path has no entry in jsSourceFiles yet.
loadJsFile(L, path, target) ==
    IF path \in L.js THEN {bindJsSourceFile(L, path)}
    ELSE LET L1 == [L EXCEPT !.counts = Bump(@, "getJsImport", path)]
         IN {doIOFailure(L1, "file-not-found", target),
             bindJsSourceFile([L1 EXCEPT !.js = @ \cup {path}], path)}

\* checkForCompilerVersionMismatch: actual is the local compiler's resolved
\* path ("MODULE_NOT_FOUND" when none resolves), expected the running one's.
checkForCompilerVersionMismatch_NoAbort(L, actual, expected) ==
    IF actual = "MODULE_NOT_FOUND" THEN [ok |-> TRUE, L |-> L]
    ELSE IF actual # expected
    THEN [ok |-> TRUE,
          L |-> [L EXCEPT !.sink = reportDiagnostic(L.sink,
                                       createDiagnostic("compiler-version-mismatch", NoTarget))]]
    ELSE [ok |-> TRUE, L |-> L]

checkForCompilerVersionMismatch(L, actual, expected) ==
    IF actual = "MODULE_NOT_FOUND" THEN [ok |-> TRUE, L |-> L]
    ELSE IF actual # expected
    THEN [ok |-> FALSE,
          L |-> [L EXCEPT !.sink = reportDiagnostic(L.sink,
                                       createDiagnostic("compiler-version-mismatch", NoTarget))]]
    ELSE [ok |-> TRUE, L |-> L]

\* options.emitters: undefined, or one `<package>` that resolves or does not.
EmitterOptions == {"undefined", "emitter", "noemitter"}

\* resolveModuleSpecifier(emitterPackage, basedir)
ResolveEmitter(emitterPackage) ==
    IF emitterPackage = "emitter" THEN EmitterPath ELSE "MODULE_NOT_FOUND"

\* if (options.emitters) await loadEmitters(mainFile, options.emitters): the
\* states it can end in.
loadEmitters(L, emitters) ==
    IF emitters = "undefined" THEN {L}
    ELSE IF ResolveEmitter(emitters) = "MODULE_NOT_FOUND"
    THEN {[L EXCEPT !.sink = reportDiagnostic(L.sink,
                                 createDiagnostic("library-not-found", NoTarget))]}
    ELSE loadJsFile(L, ResolveEmitter(emitters), NoTarget)

RunningCompiler == "/cadl/compiler/dist/core/index.js"
LocalCompiler == "/p/node_modules/@cadl-lang/compiler/dist/core/index.js"

CountKinds == ({"readFile", "parse", "bind"} \X CadlPaths) \cup ({"getJsImport", "bindJs"} \X JsPaths)

LoadIdle ==
    /\ pc = "idle"
    /\ stack = <<>>
    /\ seenSourceFiles = {}
    /\ sourceFiles = [p \in CadlPaths |-> NotLoaded]
    /\ jsSourceFiles = {}
    /\ counts = [c \in CountKinds |-> 0]
    /\ validateCbs = <<>>
    /\ processed = {}
    /\ compilerCheck = "none"

----------------------------------------------------------------------------
(* Inputs of the diagnostics scenarios *)
DiagCodes == {"error", "deprecated"}
Severities == {"error", "warning"}

\* Directive lists a statement can carry.
DirectiveLists ==
    { <<>>, <<Suppress("deprecated")>>, <<Suppress("error")>>, <<Suppress("other")>>,
      <<SuppressNoArgs>>, <<UnknownDirective>>,
      <<Suppress("other"), Suppress("deprecated")>> }

SiblingDirectiveLists == { <<>>, <<Suppress("deprecated")>>, <<Suppress("error")>> }

NodeTarget(dirs, n) == Target("node", n, 0, ChainFrom(dirs, n))
TypeTarget(dirs, n) == Target("type", n, 0, ChainFrom(dirs, n))
DecoratorTarget == Target("decorator", 0, 0, <<>>)

DiagTargets(dirs) ==
    {NoTarget, FileTarget, DecoratorTarget, TypeTarget(dirs, 3)}
        \cup {NodeTarget(dirs, n) : n \in {2, 3, 4}}

NoCall == [valid |-> FALSE, d |-> Diagnostic("none", "warning", NoTarget), pre |-> <<>>]

----------------------------------------------------------------------------
(* The diagnostics sink: a parsed and bound tree, then calls of             *)
(* program.reportDiagnostic by the checker and by decorators.               *)

\* loadCadlScript: parse, then program.reportDiagnostics(parseDiagnostics).
InitDiag ==
    /\ directives \in [Nodes -> DirectiveLists]
    /\ directives[1] = <<>>
    /\ directives[4] \in SiblingDirectiveLists
    /\ LET st == reportDiagnostics([diagnostics |-> <<>>, error |-> FALSE, raised |-> FALSE],
                                   parseDiagnostics(directives))
       IN /\ diagnostics = st.diagnostics
          /\ error = st.error
          /\ raised = st.raised
    /\ calls = 0
    /\ lastCall = NoCall
    /\ SymIdle
    /\ RegIdle
    /\ LoadIdle
    /\ RestIdle

ReportDiagnostic ==
    /\ ~raised
    /\ calls < MaxCalls
    /\ \E code \in DiagCodes, sev \in Severities, t \in DiagTargets(directives) :
          LET d == Diagnostic(code, sev, t)
              st == reportDiagnostic(Sink, d)
          IN /\ diagnostics' = st.diagnostics
             /\ error' = st.error
             /\ raised' = st.raised
             /\ lastCall' = [valid |-> TRUE, d |-> d, pre |-> diagnostics]
    /\ calls' = calls + 1
    /\ UNCHANGED directives
    /\ UNCHANGED <<symVars, regVars, loadVars, restVars>>

NextDiag == ReportDiagnostic

SpecDiag == InitDiag /\ [][NextDiag]_vars

----------------------------------------------------------------------------
(* Symbol tables: SymbolTable.set calls by the binder and the checker, and  *)
(* program.reportDuplicateSymbols calls on the tables.                      *)
DiagIdle ==
    /\ diagnostics = <<>>
    /\ error = FALSE
    /\ raised = FALSE
    /\ directives = [n \in Nodes |-> <<>>]
    /\ calls = 0
    /\ lastCall = NoCall

InitSym == DiagIdle /\ SymIdle /\ RegIdle /\ LoadIdle /\ RestIdle

Set ==
    /\ Len(symLog) < MaxSymOps
    /\ \E t \in TableIds, key \in Names, value \in Symbols :
          LET r == SymbolTableSet(tables[t], key, value)
          IN /\ tables' = [tables EXCEPT ![t] = [map |-> r.map, duplicates |-> r.duplicates]]
             /\ usingDuplicate' = usingDuplicate \cup ({r.marked} \ {None})
             /\ symLog' = Append(symLog, [op |-> "set", table |-> t, key |-> key, value |-> value])
    /\ UNCHANGED <<diagVars, duplicateSymbols, regVars, loadVars, restVars>>

ReportDuplicateSymbols ==
    /\ Len(symLog) < MaxSymOps
    /\ \E t \in TableIds :
          LET r == reportDuplicateSymbols(Sink, duplicateSymbols, tables[t])
          IN /\ diagnostics' = r.sink.diagnostics
             /\ error' = r.sink.error
             /\ raised' = r.sink.raised
             /\ duplicateSymbols' = r.duplicateSymbols
             /\ symLog' = Append(symLog, [op |-> "report", table |-> t, key |-> "", value |-> None])
    /\ UNCHANGED <<directives, calls, lastCall, tables, usingDuplicate, regVars, loadVars, restVars>>

NextSym == Set \/ ReportDuplicateSymbols

SpecSym == InitSym /\ [][NextSym]_vars

----------------------------------------------------------------------------
(* The state registry: decorators call program.stateMap / program.stateSet  *)
(* and write to the containers they get.                                    *)
InitReg == DiagIdle /\ SymIdle /\ RegIdle /\ LoadIdle /\ RestIdle

\* The heap after the call: a created container is a new, empty object.
HeapAfter(r) == IF r.created THEN Append(heap, EmptyContainer) ELSE heap

Return(kind, key, r) ==
    /\ heap' = HeapAfter(r)
    /\ handles' = handles \cup {[key |-> key, kind |-> kind, object |-> r.container]}
    /\ lastReturn' = [valid |-> TRUE,
                      first |-> ~\E h \in handles : h.key = key /\ h.kind = kind,
                      key |-> key, kind |-> kind, object |-> r.container,
                      content |-> HeapAfter(r)[r.container],
                      expected |-> written[<<key, kind>>]]
    /\ UNCHANGED written

StateMap ==
    /\ Len(heap) < MaxObjects
    /\ \E key \in StateKeys :
          LET r == stateMap(stateMaps, key, Len(heap) + 1)
          IN /\ stateMaps' = r.registry
             /\ Return("map", key, r)
    /\ UNCHANGED <<diagVars, symVars, loadVars, restVars, stateSets>>

StateSet ==
    /\ Len(heap) < MaxObjects
    /\ \E key \in StateKeys :
          LET r == stateSet(stateSets, key, Len(heap) + 1)
          IN /\ stateSets' = r.registry
             /\ Return("set", key, r)
    /\ UNCHANGED <<diagVars, symVars, loadVars, restVars, stateMaps>>

\* A caller writes to a Map it got earlier: m.set(target, value).
MapSet ==
    /\ \E h \in handles, t \in RegTargets, v \in RegValues :
          /\ h.kind = "map"
          /\ heap' = [heap EXCEPT ![h.object][t] = v]
          /\ written' = [written EXCEPT ![<<h.key, "map">>][t] = v]
    /\ UNCHANGED <<diagVars, symVars, loadVars, restVars, stateMaps, stateSets, handles, lastReturn>>

\* A caller writes to a Set it got earlier: s.add(target).
SetAdd ==
    /\ \E h \in handles, t \in RegTargets :
          /\ h.kind = "set"
          /\ heap' = [heap EXCEPT ![h.object][t] = Present]
          /\ written' = [written EXCEPT ![<<h.key, "set">>][t] = Present]
    /\ UNCHANGED <<diagVars, symVars, loadVars, restVars, stateMaps, stateSets, handles, lastReturn>>

NextReg == StateMap \/ StateSet \/ MapSet \/ SetAdd

SpecReg == InitReg /\ [][NextReg]_vars

----------------------------------------------------------------------------
(* createProgram: loadStandardLibrary, loadMain, the loadImports loops of   *)
(* the scripts being loaded, loadEmitters, the checker, then the callbacks. *)
InitLoad ==
    /\ DiagIdle /\ SymIdle /\ RegIdle /\ RestIdle
    /\ pc = "stdlib"
    /\ stack = <<>>
    /\ seenSourceFiles = {}
    /\ sourceFiles = [p \in CadlPaths |-> NotLoaded]
    /\ jsSourceFiles = {}
    /\ counts = [c \in CountKinds |-> 0]
    /\ validateCbs = <<>>
    /\ processed = {}
    /\ compilerCheck = "none"

Install(L) ==
    /\ stack' = L.stack
    /\ seenSourceFiles' = L.seen
    /\ sourceFiles' = L.files
    /\ jsSourceFiles' = L.js
    /\ counts' = L.counts
    /\ validateCbs' = L.validateCbs
    /\ diagnostics' = L.sink.diagnostics
    /\ error' = L.sink.error
    /\ raised' = L.sink.raised

Untouched == UNCHANGED <<directives, calls, lastCall, symVars, regVars, restVars>>

\* if (!options?.nostdlib) await loadStandardLibrary(program)
LoadStandardLibrary ==
    /\ pc = "stdlib"
    /\ \E nostdlib \in BOOLEAN :
          IF nostdlib THEN Install(Loader)
          ELSE \E L \in loadDirectory(Loader, "/lib", NoTarget) : Install(L)
    /\ pc' = "main"
    /\ UNCHANGED <<processed, compilerCheck>>
    /\ Untouched

\* loadMain(mainFile, options), once the standard library is loaded
LoadMain ==
    /\ pc = "main" /\ stack = <<>> /\ ~raised
    /\ pc' = "emitters"
    /\ \E mainStat \in {"ENOENT", "file", "directory"} :
          IF mainStat = "ENOENT"
          THEN /\ Install(doIOFailure(Loader, "file-not-found", NoTarget))
               /\ UNCHANGED compilerCheck
          ELSE \E actual \in {"MODULE_NOT_FOUND", RunningCompiler, LocalCompiler} :
                  LET r == checkForCompilerVersionMismatch(Loader, actual, RunningCompiler)
                  IN /\ compilerCheck' = (IF actual \in {"MODULE_NOT_FOUND", RunningCompiler}
                                        THEN "ok" ELSE "mismatch")
                     /\ IF ~r.ok THEN Install(r.L)
                        ELSE IF mainStat = "directory"
                        THEN \E L \in loadDirectory(r.L, "/p", NoTarget) : Install(L)
                        ELSE \E L \in loadCadlFile(r.L, MainPath, NoTarget) : Install(L)
    /\ UNCHANGED processed
    /\ Untouched

Loading == pc \in {"main", "emitters"} /\ stack # <<>> /\ ~raised
Top == stack[Len(stack)]
TopStatements == sourceFiles[Top.path]
AtImport == Top.i <= Len(TopStatements) /\ TopStatements[Top.i].kind = "ImportStatement"
TopStatement == TopStatements[Top.i]
TopTarget == StatementTarget(Top.path, Top.i, TopStatement)

\* The loader once the loop of the top frame has moved past its statement.
Advanced == [Loader EXCEPT !.stack[Len(stack)].i = @ + 1]

ImportStep(branch) ==
    /\ Loading /\ AtImport
    /\ ResolveImport(TopStatement.path).branch = branch
    /\ processed' = processed \cup {<<Top.path, Top.i>>}
    /\ UNCHANGED <<pc, compilerCheck>>
    /\ Untouched

\* loadImports: the loop ends at the first statement that is not an import
\* (break) or after the last one; loadCadlScript and loadCadlFile return.
LoadImportsReturn ==
    /\ Loading /\ ~AtImport
    /\ stack' = SubSeq(stack, 1, Len(stack) - 1)
    /\ UNCHANGED <<pc, seenSourceFiles, sourceFiles, jsSourceFiles, counts, validateCbs,
                   processed, compilerCheck, diagnostics, error, raised>>
    /\ Untouched

\* ext === ".cadl": await loadCadlFile(target, stmt)
LoadImportCadl ==
    /\ ImportStep("cadl")
    /\ \E L \in loadCadlFile(Advanced, ResolveImport(TopStatement.path).target, TopTarget) :
          Install(L)

\* ext === "": await loadDirectory(target, stmt)
LoadImportDirectory ==
    /\ ImportStep("directory")
    /\ \E L \in loadDirectory(Advanced, ResolveImport(TopStatement.path).target, TopTarget) :
          Install(L)

\* ext === ".js" || ext === ".mjs": await loadJsFile(target, stmt, ...)
LoadImportJs ==
    /\ ImportStep("js")
    /\ \E L \in loadJsFile(Advanced, ResolveImport(TopStatement.path).target, TopTarget) :
          Install(L)

\* resolveModuleSpecifier failed with MODULE_NOT_FOUND: library-not-found, continue
LoadImportNotFound ==
    /\ ImportStep("MODULE_NOT_FOUND")
    /\ Install([Advanced EXCEPT
           !.sink = reportDiagnostic(Advanced.sink, createDiagnostic("library-not-found", TopTarget))])

\* any other extension: invalid-import
LoadImportInvalid ==
    /\ ImportStep("invalid")
    /\ Install([Advanced EXCEPT
           !.sink = reportDiagnostic(Advanced.sink, createDiagnostic("invalid-import", TopTarget))])

\* if (options.emitters) await loadEmitters(...), once loadMain has returned
LoadEmitters ==
    /\ pc = "emitters" /\ stack = <<>> /\ ~raised
    /\ pc' = "checker"
    /\ \E emitters \in EmitterOptions : \E L \in loadEmitters(Loader, emitters) : Install(L)
    /\ UNCHANGED <<processed, compilerCheck>>
    /\ Untouched

\* program.checker.checkProgram(), once loading has returned
CheckProgram ==
    /\ pc = "checker" /\ ~raised
    /\ pc' = "checked"
    /\ UNCHANGED <<stack, seenSourceFiles, sourceFiles, jsSourceFiles, counts, validateCbs,
                   processed, compilerCheck, diagnostics, error, raised>>
    /\ Untouched

\* for (const cb of buildCbs) await cb(program); for (const cb of emitters) ...:
\* every callback registered with the program is invoked, in order.
RunCallbacks ==
    /\ pc = "checked"
    /\ pc' = "done"
    /\ UNCHANGED <<stack, seenSourceFiles, sourceFiles, jsSourceFiles, counts, validateCbs,
                   processed, compilerCheck, diagnostics, error, raised>>
    /\ Untouched

\* The callbacks createProgram has invoked.
invokedCbs == IF pc = "done" THEN validateCbs ELSE <<>>

NextLoad ==
    \/ LoadStandardLibrary
    \/ LoadMain
    \/ LoadImportsReturn
    \/ LoadImportCadl
    \/ LoadImportDirectory
    \/ LoadImportJs
    \/ LoadImportNotFound
    \/ LoadImportInvalid
    \/ LoadEmitters
    \/ CheckProgram
    \/ RunCallbacks

SpecLoad == InitLoad /\ [][NextLoad]_vars

\* The host's calls all return and createProgram runs on: each step that can
\* be taken is taken.
SpecLoadFair == SpecLoad /\ WF_vars(NextLoad)

----------------------------------------------------------------------------
(* binder.ts: bindSourceFile on one script.  Nodes are numbered in the      *)
(* order bindNode visits them, 0 being the script; a type symbol is         *)
(* numbered after the node declareSymbol made it for, so that symbol.node   *)
(* is NodeOfSymbol(symbol).  Table objects are numbered in creation order.  *)
ScriptNode == 0
NoTable == 0
SymbolBase == 10
SymbolOfNode(n) == SymbolBase + n
NodeOfSymbol(sym) == sym - SymbolBase

\* A namespace statement: statements is "array" for `namespace N { ... }`,
\* "undefined" for `namespace N;` and "node" for an outer segment of a dotted
\* name, whose statements field is the namespace node of the next segment.
NamespaceNode(name, statements, container) ==
    [kind |-> "NamespaceStatement", name |-> name, statements |-> statements,
     parent |-> container]
DeclarationNode(kind, name, container) ==
    [kind |-> kind, name |-> name, statements |-> "none", parent |-> container]

\* Top-level statements the parser can produce, each with the nodes under it;
\* parent is relative to the statement (0: the enclosing script).
BindItems ==
    { <<NamespaceNode("A", "undefined", 0)>>,
      <<NamespaceNode("B", "array", 0)>>,
      <<NamespaceNode("A", "node", 0), NamespaceNode("B", "undefined", 1)>>,
      <<NamespaceNode("A", "node", 0), NamespaceNode("B", "array", 1)>>,
      <<NamespaceNode("A", "array", 0), NamespaceNode("B", "array", 1),
        NamespaceNode("B", "array", 1)>>,
      <<DeclarationNode("ModelStatement", "B", 0),
        DeclarationNode("TemplateParameterDeclaration", "A", 1)>>,
      <<DeclarationNode("InterfaceStatement", "A", 0),
        DeclarationNode("OperationStatement", "B", 1)>>,
      <<DeclarationNode("OperationStatement", "A", 0)>>,
      <<DeclarationNode("EnumStatement", "B", 0)>>,
      <<DeclarationNode("AliasStatement", "A", 0)>>,
      <<DeclarationNode("UnionStatement", "B", 0)>> }

Rebase(item, offset) ==
    [k \in 1..Len(item) |->
        [item[k] EXCEPT !.parent = IF @ = 0 THEN 0 ELSE @ + offset]]

RECURSIVE Flatten(_)
Flatten(items) ==
    IF items = <<>> THEN <<>>
    ELSE LET front == Flatten(SubSeq(items, 1, Len(items) - 1))
         IN front \o Rebase(items[Len(items)], Len(front))

BindScripts == { Flatten(items) : items \in SeqsUpTo(BindItems, MaxItems) }

KindOf(n) == IF n = ScriptNode THEN "CadlScript" ELSE bindAst[n].kind

\* hasScope(node)
hasScope(n) ==
    CASE KindOf(n) \in {"ModelStatement", "AliasStatement", "InterfaceStatement",
                        "UnionStatement", "CadlScript"} -> TRUE
      [] KindOf(n) = "NamespaceStatement" -> bindAst[n].statements # "undefined"
      [] OTHER -> FALSE

\* getContainingSymbolTable()
getContainingSymbolTable ==
    CASE KindOf(bindScope.scope) = "NamespaceStatement" -> nodeExports[bindScope.scope]
      [] KindOf(bindScope.scope) = "CadlScript" -> nodeExports[bindScope.fileNamespace]
      [] OTHER -> nodeLocals[bindScope.scope]

\* The binder's objects as one record, for the operators below.
Binder ==
    [symbol |-> nodeSymbol, exports |-> nodeExports, locals |-> nodeLocals,
     tables |-> bindTables, scope |-> bindScope, threw |-> FALSE]

TableOnly(r) == [map |-> r.map, duplicates |-> r.duplicates]

\* declareSymbol(table, node, name): compilerAssert(table), createTypeSymbol,
\* node.symbol = symbol, table.set(name, symbol).
declareSymbol(b, table, n) ==
    IF table = NoTable THEN [b EXCEPT !.threw = TRUE]
    ELSE [b EXCEPT !.symbol[n] = SymbolOfNode(n),
                   !.tables[table] =
                       TableOnly(SymbolTableSet(@, bindAst[n].name, SymbolOfNode(n)))]

\* node.locals = new SymbolTable()
newLocals(b, n) ==
    [b EXCEPT !.tables = Append(@, EmptyTable), !.locals[n] = Len(b.tables) + 1]

\* bindNamespaceStatement with the existing binding never found.
bindNamespaceStatement_NeverMerge(b, n) ==
    LET declared == declareSymbol(b, getContainingSymbolTable, n)
        withLocals == newLocals(declared, n)
        bound == [withLocals EXCEPT !.tables = Append(@, EmptyTable),
                                    !.exports[n] = Len(withLocals.tables) + 1]
    IN IF bindAst[n].statements = "undefined"
       THEN [bound EXCEPT !.scope = [scope |-> n, currentNamespace |-> n, fileNamespace |-> n]]
       ELSE bound

\* bindNamespaceStatement(statement)
bindNamespaceStatement(b, n) ==
    LET lookedUp == nodeExports[bindScope.currentNamespace]
    IN IF lookedUp = NoTable THEN [b EXCEPT !.threw = TRUE]
       ELSE
       LET existingBinding == bindTables[lookedUp].map[bindAst[n].name]
           merged == [newLocals(b, n) EXCEPT
                         !.symbol[n] = existingBinding,
                         !.exports[n] = nodeExports[NodeOfSymbol(existingBinding)]]
           declared == declareSymbol(b, getContainingSymbolTable, n)
           withLocals == newLocals(declared, n)
           fresh == [withLocals EXCEPT !.tables = Append(@, EmptyTable),
                                       !.exports[n] = Len(withLocals.tables) + 1]
           bound == IF existingBinding # None /\ SymKind(existingBinding) = "type"
                    THEN merged ELSE fresh
       IN IF bound.threw THEN bound
          ELSE IF bindAst[n].statements = "undefined"
          THEN [bound EXCEPT !.scope = [scope |-> n, currentNamespace |-> n,
                                        fileNamespace |-> n]]
          ELSE bound

\* The switch of bindNode(node)
bindStatement(b, n) ==
    CASE KindOf(n) \in {"ModelStatement", "InterfaceStatement", "UnionStatement",
                        "AliasStatement"} ->
             LET declared == declareSymbol(b, getContainingSymbolTable, n)
             IN IF declared.threw THEN declared ELSE newLocals(declared, n)
      [] KindOf(n) \in {"EnumStatement", "TemplateParameterDeclaration"} ->
             declareSymbol(b, getContainingSymbolTable, n)
      [] KindOf(n) = "NamespaceStatement" -> bindNamespaceStatement(b, n)
      [] KindOf(n) = "OperationStatement" ->
             IF KindOf(bindScope.scope) # "InterfaceStatement"
             THEN declareSymbol(b, getContainingSymbolTable, n)
             ELSE b
      [] OTHER -> b

BindUntouched ==
    UNCHANGED <<directives, calls, lastCall, tables, usingDuplicate, symLog, regVars, loadVars,
                jsVars, parseVars, checkVars, typeVars>>

----------------------------------------------------------------------------
(* bindSourceFile(sourceFile) on any script the parser can return *)
InitBind ==
    /\ DiagIdle /\ SymIdle /\ RegIdle /\ LoadIdle /\ JsIdle /\ ParseIdle /\ CheckIdle /\ TypeIdle
    /\ bindAst \in BindScripts
    /\ bindNext = 0
    /\ bindScope = [scope |-> 0, currentNamespace |-> 0, fileNamespace |-> 0]
    /\ bindFrames = <<>>
    /\ nodeSymbol = [n \in 0..Len(bindAst) |-> None]
    /\ nodeExports = [n \in 0..Len(bindAst) |-> NoTable]
    \* parseCadlScript: locals: createSymbolTable()
    /\ nodeLocals = [n \in 0..Len(bindAst) |-> IF n = ScriptNode THEN 1 ELSE NoTable]
    /\ bindTables = <<EmptyTable>>
    /\ bindLog = <<>>
    /\ bindPhase = "idle"

\* bindSourceFile: sourceFile.exports = createSymbolTable(); bindNode(sourceFile)
\* up to its visitChildren.
BindSourceFile ==
    /\ bindPhase = "idle" /\ bindNext = 0 /\ nodeSymbol # <<>>
    /\ bindPhase' = "binding"
    /\ bindTables' = Append(bindTables, EmptyTable)
    /\ nodeExports' = [nodeExports EXCEPT ![ScriptNode] = Len(bindTables) + 1]
    /\ bindScope' = [scope |-> ScriptNode, currentNamespace |-> ScriptNode,
                     fileNamespace |-> ScriptNode]
    /\ bindFrames' = <<[node |-> ScriptNode, prevScope |-> ScriptNode,
                        prevNamespace |-> ScriptNode]>>
    /\ bindNext' = 1
    /\ UNCHANGED <<bindAst, nodeSymbol, nodeLocals, bindLog>>
    /\ UNCHANGED <<diagnostics, error, raised, duplicateSymbols>>
    /\ BindUntouched

TopFrame == bindFrames[Len(bindFrames)]

\* visitChildren has a next child for the innermost bindNode call in progress.
HasNextChild ==
    /\ bindNext <= Len(bindAst)
    /\ bindFrames # <<>>
    /\ bindAst[bindNext].parent = TopFrame.node

\* bindNode(node) up to its visitChildren: the switch, then the scope is
\* entered when the node has one.
BindNode ==
    /\ bindPhase = "binding" /\ ~raised /\ HasNextChild
    /\ LET n == bindNext
           b == bindStatement(Binder, n)
           isNamespace == KindOf(n) = "NamespaceStatement"
       IN /\ raised' = b.threw
          /\ nodeSymbol' = b.symbol
          /\ nodeExports' = b.exports
          /\ nodeLocals' = b.locals
          /\ bindTables' = b.tables
          /\ bindLog' =
                IF isNamespace /\ ~b.threw
                THEN Append(bindLog,
                            [node |-> n,
                             found |-> bindTables[nodeExports[bindScope.currentNamespace]]
                                           .map[bindAst[n].name],
                             table |-> getContainingSymbolTable,
                             existing |->
                                 IF getContainingSymbolTable = NoTable THEN None
                                 ELSE bindTables[getContainingSymbolTable].map[bindAst[n].name]])
                ELSE bindLog
          /\ IF hasScope(n) /\ ~b.threw
             THEN /\ bindFrames' = Append(bindFrames,
                                          [node |-> n, prevScope |-> b.scope.scope,
                                           prevNamespace |-> b.scope.currentNamespace])
                  /\ bindScope' = [b.scope EXCEPT
                                      !.scope = n,
                                      !.currentNamespace = IF isNamespace THEN n ELSE @]
             ELSE /\ bindFrames' = bindFrames
                  /\ bindScope' = b.scope
          /\ bindNext' = n + 1
    /\ UNCHANGED <<bindAst, bindPhase>>
    /\ UNCHANGED <<diagnostics, error, duplicateSymbols>>
    /\ BindUntouched

\* bindNode(node) after its visitChildren: reportDuplicateSymbols(node.locals)
\* unless the node is a namespace, then scope and currentNamespace are restored.
BindNodeReturn ==
    /\ bindPhase = "binding" /\ ~raised /\ bindFrames # <<>> /\ ~HasNextChild
    /\ LET f == TopFrame
           reports == KindOf(f.node) # "NamespaceStatement" /\ nodeLocals[f.node] # NoTable
           r == IF reports
                THEN reportDuplicateSymbols(Sink, duplicateSymbols, bindTables[nodeLocals[f.node]])
                ELSE [sink |-> Sink, duplicateSymbols |-> duplicateSymbols]
       IN /\ diagnostics' = r.sink.diagnostics
          /\ error' = r.sink.error
          /\ raised' = r.sink.raised
          /\ duplicateSymbols' = r.duplicateSymbols
          /\ bindScope' = [bindScope EXCEPT !.scope = f.prevScope,
                                            !.currentNamespace = f.prevNamespace]
          /\ bindFrames' = SubSeq(bindFrames, 1, Len(bindFrames) - 1)
          /\ bindPhase' = IF Len(bindFrames) = 1 THEN "bound" ELSE "binding"
    /\ UNCHANGED <<bindAst, bindNext, nodeSymbol, nodeExports, nodeLocals, bindTables, bindLog>>
    /\ BindUntouched

NextBind == BindSourceFile \/ BindNode \/ BindNodeReturn

SpecBind == InitBind /\ [][NextBind]_vars

----------------------------------------------------------------------------
(* binder.ts: bindJsSourceFile on one external module.  Strings are         *)
(* sequences of characters (a name counts as one character), so that        *)
(* split("."), the `$` prefix test and `@` + name are computed.             *)
Dollar(name) == <<"$">> \o name
JsKeys == { Dollar(<<"f">>), Dollar(<<"g">>), Dollar(<<"onValidate">>), Dollar(<<"onEmit">>),
            <<"h">> }

\* The `namespace` export of a module and the `namespace` attribute of a
\* function; the empty string stands for every falsy value.
JsNamespaceStrings == { <<>>, <<"A">>, <<"A", ".", "B">> }

\* An export: its key, whether its value is a function, and the function's
\* namespace attribute.
JsExport(key, isFunction, ns) == [key |-> key, isFunction |-> isFunction, namespace |-> ns]
JsExports ==
    { JsExport(k, TRUE, ns) : k \in { Dollar(<<"f">>), Dollar(<<"g">>) },
                              ns \in JsNamespaceStrings }
    \cup { JsExport(k, TRUE, ns) : k \in JsKeys, ns \in { <<>>, <<"A", ".", "B">> } }
    \cup { JsExport(k, FALSE, <<>>) : k \in { Dollar(<<"f">>), <<"h">> } }

\* Object.entries(esmExports): keys are distinct
JsEntryLists ==
    { es \in SeqsUpTo(JsExports, MaxExports) :
        \A i, j \in 1..Len(es) : (i # j) => (es[i].key # es[j].key) }

\* String.prototype.split(".")
RECURSIVE SplitFrom(_, _, _)
SplitFrom(str, current, parts) ==
    IF str = <<>> THEN Append(parts, current)
    ELSE IF Head(str) = "." THEN SplitFrom(Tail(str), <<>>, Append(parts, current))
    ELSE SplitFrom(Tail(str), Append(current, Head(str)), parts)

Split(str) == SplitFrom(str, <<>>, <<>>)

\* DecoratorFunctionPattern.test(name), name.replace(DecoratorFunctionPattern, "")
isFunctionName(key) == key # <<>> /\ Head(key) = "$"
getFunctionName(key) == IF isFunctionName(key) THEN Tail(key) ELSE key

\* createDecoratorSymbol: name is `@` + name; the symbol made for the i-th
\* entry is numbered after it.
DecoratorBase == 100
DecoratorSymbol(i) == DecoratorBase + i
DecoratorName(name) == <<"@">> \o name
JsSymKind(sym) == IF sym >= DecoratorBase THEN "decorator" ELSE "type"

\* Every name a table of the module can be asked for.
JsNames ==
    { <<"A">>, <<"B">> } \cup { DecoratorName(getFunctionName(k)) : k \in JsKeys }

JsEmptyTable == [map |-> [n \in JsNames |-> None], duplicates |-> <<>>]

\* const nsParts = []; if (rootNs) push(...rootNs.split(".")); if (memberNs) ...
nsParts(rootNs, memberNs) ==
    (IF rootNs # <<>> THEN Split(rootNs) ELSE <<>>)
    \o (IF memberNs # <<>> THEN Split(memberNs) ELSE <<>>)

\* enterNamespaces with a namespace node synthesized for every part.
RECURSIVE enterNamespaces_NeverReuse(_, _, _)
enterNamespaces_NeverReuse(J, scopeExports, parts) ==
    IF parts = <<>> THEN [J |-> J, scopeExports |-> scopeExports]
    ELSE
    LET part == Head(parts)
        nsNode == Len(J.nodes) + 1
        ownExports == Len(J.tables) + 2
        made == [J EXCEPT !.tables =
                              [@ EXCEPT ![scopeExports] =
                                  TableOnly(SymbolTableSet(@, part, SymbolOfNode(nsNode)))]
                              \o <<JsEmptyTable, JsEmptyTable>>,
                          !.nodes = Append(@, [name |-> part, symbol |-> SymbolOfNode(nsNode),
                                               exports |-> ownExports,
                                               path |-> <<scopeExports, part>>])]
    IN enterNamespaces_NeverReuse(made, ownExports, Tail(parts))

\* The loop over nsParts: from the table `scope.exports`, reuse the namespace
\* node bound to the part when this call synthesized it, else synthesize one
\* (createSyntheticNamespace makes its locals and its exports) and declare it.
RECURSIVE enterNamespaces(_, _, _)
enterNamespaces(J, scopeExports, parts) ==
    IF parts = <<>> THEN [J |-> J, scopeExports |-> scopeExports]
    ELSE
    LET part == Head(parts)
        existingBinding == J.tables[scopeExports].map[part]
        isType == existingBinding # None /\ JsSymKind(existingBinding) = "type"
        nsNode == Len(J.nodes) + 1
        ownExports == Len(J.tables) + 2
    IN IF isType /\ NodeOfSymbol(existingBinding) \in 1..Len(J.nodes)
       THEN enterNamespaces(J, J.nodes[NodeOfSymbol(existingBinding)].exports, Tail(parts))
       ELSE IF isType
       THEN LET shared == J.nodes[NodeOfSymbol(existingBinding)].exports
            IN enterNamespaces(
                   [J EXCEPT !.tables = @ \o <<JsEmptyTable, JsEmptyTable>>,
                             !.nodes = Append(@, [name |-> part, symbol |-> existingBinding,
                                                  exports |-> shared, path |-> <<>>])],
                   shared, Tail(parts))
       ELSE enterNamespaces(
                [J EXCEPT !.tables =
                              [@ EXCEPT ![scopeExports] =
                                  TableOnly(SymbolTableSet(@, part, SymbolOfNode(nsNode)))]
                              \o <<JsEmptyTable, JsEmptyTable>>,
                          !.nodes = Append(@, [name |-> part, symbol |-> SymbolOfNode(nsNode),
                                               exports |-> ownExports,
                                               path |-> <<scopeExports, part>>])],
                ownExports, Tail(parts))

\* One iteration of `for (const [key, member] of Object.entries(esmExports))`
bindJsExport(J, rootNs, i, entry) ==
    IF ~(entry.isFunction /\ isFunctionName(entry.key)) THEN J
    ELSE LET name == getFunctionName(entry.key)
         IN IF name = <<"onValidate">> THEN [J EXCEPT !.validateCbs = Append(@, i)]
            ELSE IF name = <<"onEmit">> THEN J
            ELSE LET entered == enterNamespaces(J, 1, nsParts(rootNs, entry.namespace))
                 IN [entered.J EXCEPT
                        !.tables[entered.scopeExports] =
                            TableOnly(SymbolTableSet(@, DecoratorName(name), DecoratorSymbol(i)))]

JsUntouched ==
    UNCHANGED <<diagVars, symVars, regVars, bindVars, parseVars, checkVars, typeVars, pc, stack, seenSourceFiles,
                sourceFiles, jsSourceFiles, counts, processed, compilerCheck>>

----------------------------------------------------------------------------
(* bindJsSourceFile(sourceFile) on any module *)
InitJs ==
    /\ DiagIdle /\ SymIdle /\ RegIdle /\ LoadIdle /\ BindIdle /\ ParseIdle /\ CheckIdle /\ TypeIdle
    /\ jsModule \in { [rootNs |-> r, entries |-> es] :
                        r \in JsNamespaceStrings, es \in JsEntryLists }
    /\ jsNext = 0
    /\ jsTables = <<>>
    /\ jsNamespaceNodes = <<>>
    /\ jsPhase = "idle"

\* sourceFile.exports = createSymbolTable(); const namespaces = new Set()
BindJsSourceFile ==
    /\ jsPhase = "idle" /\ jsModule # <<>>
    /\ jsPhase' = "binding"
    /\ jsTables' = <<JsEmptyTable>>
    /\ jsNamespaceNodes' = <<>>
    /\ jsNext' = 1
    /\ UNCHANGED <<jsModule, validateCbs>>
    /\ JsUntouched

\* The body of the loop for the next entry
BindJsExport ==
    /\ jsPhase = "binding" /\ jsNext <= Len(jsModule.entries)
    /\ LET J == bindJsExport([tables |-> jsTables, nodes |-> jsNamespaceNodes,
                               validateCbs |-> validateCbs],
                              jsModule.rootNs, jsNext, jsModule.entries[jsNext])
       IN /\ jsTables' = J.tables
          /\ jsNamespaceNodes' = J.nodes
          /\ validateCbs' = J.validateCbs
    /\ jsNext' = jsNext + 1
    /\ UNCHANGED <<jsModule, jsPhase>>
    /\ JsUntouched

\* (sourceFile as any).namespaces = Array.from(namespaces)
BindJsReturn ==
    /\ jsPhase = "binding" /\ jsNext > Len(jsModule.entries)
    /\ jsPhase' = "bound"
    /\ UNCHANGED <<jsModule, jsNext, jsTables, jsNamespaceNodes, validateCbs>>
    /\ JsUntouched

NextJs == BindJsSourceFile \/ BindJsExport \/ BindJsReturn

SpecJs == InitJs /\ [][NextJs]_vars

----------------------------------------------------------------------------
(* parser.ts: parse(code).  The text is given as the tokens the scanner    *)
(* yields for it, trivia included; token k is at position k and is one     *)
(* character wide, and the end of the file is at position Len + 1.  The    *)
(* parser's state (scanner position, previousTokenEnd,                     *)
(* realPositionOfLastError, treePrintable, newLineIsTrivia,                *)
(* parseDiagnostics) is a record that every parse function takes and       *)
(* returns.  Its fields directives, forbidden, stalls, violations and      *)
(* stuck are history: the directives parsed, the decorators handed to      *)
(* reportInvalidDecorators, the stalled list iterations, the statement     *)
(* order errors asked for, and whether a loop iteration ended where it     *)
(* began.                                                                  *)
ParserTokens ==
    {"ImportKeyword", "NamespaceKeyword", "At", "Hash", "Identifier", "StringLiteral",
     "Semicolon", "OpenParen", "CloseParen", "OpenBrace", "CloseBrace", "NewLine"}

EndOfFile == "EndOfFile"

\* The text of the one identifier of the texts parsed here.
IdentifierText == "suppress"

\* scanner.ts is not part of the sources at hand: its token classes.
isTrivia(t) == t = "NewLine"
isKeyword(t) == t \in {"ImportKeyword", "NamespaceKeyword"}
isStatementKeyword(t) == t \in {"ImportKeyword", "NamespaceKeyword"}
isPunctuation(t) ==
    t \in {"At", "Hash", "Semicolon", "OpenParen", "CloseParen", "OpenBrace", "CloseBrace",
           "Comma", "Colon"}

token(P) == IF P.i = 0 \/ P.i > Len(P.toks) THEN EndOfFile ELSE P.toks[P.i]
tokenPos(P) == P.i

\* scanner.eof(), of scanner.ts: the scanner has reached the end of the text
eof(P) == token(P) = EndOfFile
tokenEndPos(P) == IF P.i > Len(P.toks) THEN Len(P.toks) + 1 ELSE P.i + 1
tokenValue(P) ==
    CASE token(P) = "Identifier" -> IdentifierText
      [] token(P) = "ImportKeyword" -> "import"
      [] token(P) = "NamespaceKeyword" -> "namespace"
      [] OTHER -> ""

\* scanner.scan() repeated by nextToken until a token that is not trivia, or
\* a new line when new lines are not trivia: the index of that token.
RECURSIVE scan(_, _, _)
scan(toks, j, nlTrivia) ==
    IF j > Len(toks) THEN Len(toks) + 1
    ELSE IF isTrivia(toks[j]) /\ ~(~nlTrivia /\ toks[j] = "NewLine") THEN scan(toks, j + 1, nlTrivia)
    ELSE j

nextToken(P) ==
    [P EXCEPT !.prevEnd = tokenEndPos(P),
              !.i = scan(P.toks, P.i + 1, P.nlTrivia)]

\* A diagnostic of the parser: expected is its format.token, the token or
\* tokens that were expected, realPos and printable are the report's
ParseDiagnostic(code, expected, pos, realPos, printable) ==
    [code |-> code, expected |-> expected, pos |-> pos, realPos |-> realPos,
     printable |-> printable]

parserError_NoSuppression(P, code, expected, pos, realPos, printable) ==
    [P EXCEPT !.lastErr = realPos,
              !.printable = IF ~printable THEN FALSE ELSE @,
              !.diags = Append(@, ParseDiagnostic(code, expected, pos, realPos, printable))]

\* error(report), with report.format.token, report.target = {pos, realPos}
\* and report.printable
parserError(P, code, expected, pos, realPos, printable) ==
    IF P.lastErr = realPos THEN P
    ELSE [P EXCEPT !.lastErr = realPos,
                   !.printable = IF ~printable THEN FALSE ELSE @,
                   !.diags = Append(@, ParseDiagnostic(code, expected, pos, realPos, printable))]

\* error(report) without a target: at the current token
errorHere(P, code) == parserError(P, code, "", tokenPos(P), tokenPos(P), FALSE)

\* error(report) with a node as its target
errorAt(P, code, pos) == parserError(P, code, "", pos, pos, FALSE)

\* The {pos, realPos} of getAdjustedDefaultLocation(token), or of the default
getAdjustedDefaultLocation(P, t) ==
    IF isPunctuation(t) THEN [pos |-> P.prevEnd, realPos |-> tokenPos(P)]
    ELSE [pos |-> tokenPos(P), realPos |-> tokenPos(P)]

parseExpected_NeverPrintable(P, expectedToken) ==
    IF token(P) = expectedToken THEN nextToken(P)
    ELSE LET location == getAdjustedDefaultLocation(P, expectedToken) IN
         parserError(P, "token-expected", expectedToken, location.pos, location.realPos, FALSE)

parseExpected(P, expectedToken) ==
    IF token(P) = expectedToken THEN nextToken(P)
    ELSE LET location == getAdjustedDefaultLocation(P, expectedToken) IN
         parserError(P, "token-expected", expectedToken, location.pos, location.realPos,
                     isPunctuation(expectedToken))

parseOptional(P, optionalToken) ==
    IF token(P) = optionalToken THEN nextToken(P) ELSE P

\* errorTokenIsNotOneOf(Token.Semicolon, Token.OpenBrace)
errorTokenIsNotOneOf(P, options) ==
    LET location == getAdjustedDefaultLocation(P, options[1]) IN
    parserError(P, "token-expected", "Semicolon, or OpenBrace", location.pos, location.realPos,
                FALSE)

\* parseExpectedOneOf(Token.Semicolon, Token.OpenBrace): the state after it,
\* the token it returns being token(P)
parseExpectedOneOf(P, options) ==
    LET Q == IF \E k \in DOMAIN options : token(P) = options[k] THEN P
             ELSE errorTokenIsNotOneOf(P, options)
    IN  nextToken(Q)

parseIdentifier(P) ==
    IF isKeyword(token(P))
    THEN [P |-> nextToken(errorHere(P, "reserverd-identifier")), sv |-> tokenValue(P)]
    ELSE IF token(P) # "Identifier"
    THEN [P |-> errorHere(P, "token-expected"), sv |-> "<missing identifier>"]
    ELSE [P |-> nextToken(P), sv |-> tokenValue(P)]

parseStringLiteral(P) == parseExpected(P, "StringLiteral")

\* do { nextToken() } while (the token starts no statement)
RECURSIVE skipToStatement(_)
skipToStatement(P) ==
    LET Q == nextToken(P) IN
    IF isStatementKeyword(token(Q)) \/ token(Q) \in {"At", "Semicolon", EndOfFile} THEN Q
    ELSE skipToStatement(Q)

\* A loop iteration that began at P and ended at Q consumed no token.
noProgress(P, Q) == Q.i = P.i

parseDirectiveParameter_NoSkip(P) ==
    CASE token(P) = "Identifier" -> parseIdentifier(P).P
      [] token(P) = "StringLiteral" -> parseStringLiteral(P)
      [] OTHER -> errorHere(P, "token-expected")

parseDirectiveParameter(P) ==
    CASE token(P) = "Identifier" -> parseIdentifier(P).P
      [] token(P) = "StringLiteral" -> parseStringLiteral(P)
      [] OTHER -> skipToStatement(errorHere(P, "token-expected"))

RECURSIVE parseDirectiveArguments(_)

\* The end of an iteration of the argument loop that began at P
nextDirectiveArgument(P, Q) ==
    IF noProgress(P, Q) THEN [Q EXCEPT !.stuck = TRUE] ELSE parseDirectiveArguments(Q)

\* The argument loop of parseDirectiveExpression
parseDirectiveArguments(P) ==
    IF token(P) \in {"NewLine", EndOfFile} THEN P
    ELSE nextDirectiveArgument(P, parseDirectiveParameter(P))

\* parseDirectiveExpression() from `newLineIsTrivia = true` on, for the
\* directive at pos whose name is at position name
finishDirective(pos, name, P) ==
    LET Q == nextToken([P EXCEPT !.nlTrivia = TRUE]) IN
    [Q EXCEPT !.directives = Append(@, [pos |-> pos, name |-> name, end |-> Q.i])]

\* parseDirectiveExpression() from the check of the target on; nameAt is the
\* position of the token parseIdentifier was called at
parseDirectiveTarget(pos, nameAt, target) ==
    finishDirective(pos, IF target.P.i # nameAt THEN nameAt ELSE pos,
        parseDirectiveArguments(
            [(IF target.sv # "suppress"
              THEN parserError(target.P, "unknown-directive", "", pos, pos, TRUE)
              ELSE target.P) EXCEPT !.nlTrivia = FALSE]))

\* parseDirectiveExpression() after parseExpected(Token.Hash)
parseDirectiveName(pos, P) == parseDirectiveTarget(pos, P.i, parseIdentifier(P))

parseDirectiveExpression(P) == parseDirectiveName(tokenPos(P), parseExpected(P, "Hash"))

RECURSIVE parseDirectiveList(_)
parseDirectiveList(P) ==
    IF token(P) = "Hash" THEN parseDirectiveList(parseDirectiveExpression(P)) ELSE P

\* The positions of the directives parsed between P and Q
DirectivesSince(P, Q) ==
    [k \in 1..(Len(Q.directives) - Len(P.directives)) |->
        Q.directives[Len(P.directives) + k].pos]

RECURSIVE reportInvalidDecorators(_, _)
reportInvalidDecorators(P, decorators) ==
    IF decorators = <<>> THEN P
    ELSE reportInvalidDecorators(
            [errorAt(P, "invalid-decorator-location", Head(decorators))
                EXCEPT !.forbidden = @ \cup {Head(decorators)}],
            Tail(decorators))

\* reportInvalidDecorators on what parseDecoratorList returned
reportInvalidDecoratorList(d) == reportInvalidDecorators(d.P, d.decorators)

RECURSIVE reportInvalidDirective(_, _)
reportInvalidDirective(P, dirs) ==
    IF dirs = <<>> THEN P
    ELSE reportInvalidDirective(errorAt(P, "invalid-directive-location", Head(dirs)), Tail(dirs))

\* reportInvalidDirective on the directives parseDirectiveList parsed from P
reportInvalidDirectiveList(P, Q) == reportInvalidDirective(Q, DirectivesSince(P, Q))

\* ListKind.DecoratorArguments and ListKind.ModelProperties
DecoratorArguments ==
    [allowEmpty |-> TRUE, toleratedDelimiterIsValid |-> TRUE, trailingDelimiterIsValid |-> TRUE,
     open |-> "OpenParen", close |-> "CloseParen", delimiter |-> "Comma",
     toleratedDelimiter |-> "Semicolon", invalidDecoratorTarget |-> TRUE]
ModelProperties ==
    [allowEmpty |-> TRUE, toleratedDelimiterIsValid |-> TRUE, trailingDelimiterIsValid |-> TRUE,
     open |-> "OpenBrace", close |-> "CloseBrace", delimiter |-> "Semicolon",
     toleratedDelimiter |-> "Comma", invalidDecoratorTarget |-> FALSE]

\* parseOptionalDelimiter(kind): the state after it, and what it returns
parseOptionalDelimiter(P, kind) ==
    IF token(P) = kind.delimiter THEN [P |-> nextToken(P), found |-> TRUE]
    ELSE IF token(P) = kind.toleratedDelimiter
    THEN [P |-> nextToken(IF ~kind.toleratedDelimiterIsValid
                          THEN parseExpected(P, kind.delimiter) ELSE P),
          found |-> TRUE]
    ELSE [P |-> P, found |-> FALSE]

RECURSIVE parseDecoratorList(_, _)
RECURSIVE parseList(_, _)
RECURSIVE parseListItems(_, _)
RECURSIVE parseExpression(_)

parseOptionalList(P, kind) ==
    IF token(P) = kind.open THEN parseList(P, kind) ELSE P

\* parseDecoratorExpression(): the state after it, and the decorator's pos
parseDecoratorExpression(P) ==
    [P |-> parseOptionalList(parseIdentifier(parseExpected(P, "At")).P, DecoratorArguments),
     pos |-> tokenPos(P)]

\* decorators.push(decorator), and the loop of parseDecoratorList goes on
pushDecorator(decorators, decorator) ==
    parseDecoratorList(decorator.P, Append(decorators, decorator.pos))

\* parseDecoratorList(), its decorators appended to those given
parseDecoratorList(P, decorators) ==
    IF token(P) = "At" THEN pushDecorator(decorators, parseDecoratorExpression(P))
    ELSE [P |-> P, decorators |-> decorators]

parseParenthesizedExpression(P) ==
    parseExpected(parseExpression(parseExpected(P, "OpenParen")), "CloseParen")

\* parseModelProperty(pos, decorators): the texts parsed here have no `...`,
\* `?`, `:` or `=`
parseModelProperty(P) ==
    parseExpression(
        parseExpected(
            IF token(P) = "StringLiteral" THEN parseStringLiteral(P) ELSE parseIdentifier(P).P,
            "Colon"))

parseModelExpression(P) == parseList(P, ModelProperties)

\* parseExpression(): without `|`, `&` and `[` in the text it is
\* parsePrimaryExpression(), whose while (true) loop is the recursion
parseExpression(P) ==
    CASE token(P) = "Identifier" -> parseIdentifier(P).P
      [] token(P) = "StringLiteral" -> parseStringLiteral(P)
      [] token(P) = "OpenBrace" -> parseModelExpression(P)
      [] token(P) = "OpenParen" -> parseParenthesizedExpression(P)
      [] token(P) = "At" ->
            parseExpression(reportInvalidDecoratorList(parseDecoratorList(P, <<>>)))
      [] token(P) = "Hash" ->
            parseExpression(reportInvalidDirectiveList(P, parseDirectiveList(P)))
      [] OTHER -> parseIdentifier(P).P

\* parseList: the progress check at the end of an iteration that began at
\* pos, P being the state after parseExpected(kind.delimiter)
checkListProgress(pos, P, kind) ==
    IF pos = tokenPos(P)
    THEN [nextToken(P) EXCEPT !.raised = @ \/ P.lastErr # pos,
                              !.stalls = Append(@, [pos |-> pos, end |-> nextToken(P).i])]
    ELSE parseListItems(P, kind)

\* parseList: an iteration that began at pos, from parseOptionalDelimiter on;
\* P is the state after the item, delimiter what parseOptionalDelimiter gave
parseListDelimiter(pos, P, delimiter, kind) ==
    IF delimiter.found
    THEN IF token(delimiter.P) = kind.close
         THEN IF ~kind.trailingDelimiterIsValid
              THEN errorAt(nextToken(delimiter.P), "trailing-token", tokenPos(P))
              ELSE nextToken(delimiter.P)
         ELSE parseListItems(delimiter.P, kind)
    ELSE IF token(P) = kind.close THEN nextToken(P)
    ELSE checkListProgress(pos, parseExpected(P, kind.delimiter), kind)

\* parseList: parseItem(pos, decorators), and the rest of the iteration
parseListItem(pos, P, kind) ==
    parseListDelimiter(pos, P, parseOptionalDelimiter(P, kind), kind)

\* parseList: the decorators of an item, reported when the kind has an
\* invalidDecoratorTarget
parseListItemDecorators(d, kind) ==
    IF kind.invalidDecoratorTarget THEN reportInvalidDecoratorList(d) ELSE d.P

\* parseItem(pos, decorators) of parseList: parseModelPropertyOrSpread for
\* ListKind.ModelProperties, parseExpression for ListKind.DecoratorArguments
parseItem(P, kind) ==
    IF kind = ModelProperties THEN parseModelProperty(P) ELSE parseExpression(P)

\* The while (true) loop of parseList
parseListItems(P, kind) ==
    parseListItem(tokenPos(P),
        parseItem(
            parseListItemDecorators(parseDecoratorList(parseDirectiveList(P), <<>>), kind),
            kind),
        kind)

\* parseList(kind, parseItem) after parseExpected(kind.open)
parseListBody(P, kind) ==
    IF kind.allowEmpty /\ token(P) = kind.close THEN nextToken(P)
    ELSE parseListItems(P, kind)

parseList(P, kind) == parseListBody(parseExpected(P, kind.open), kind)

parseImportStatement(P) ==
    parseExpected(parseStringLiteral(parseExpected(P, "ImportKeyword")), "Semicolon")

parseEmptyStatement(P) == parseExpected(P, "Semicolon")

parseInvalidStatement(P) == errorAt(skipToStatement(P), "token-expected", tokenPos(P))

\* A statement-order error: error({code}) at the current token
orderError(P, code) ==
    [errorHere(P, code) EXCEPT !.violations = Append(@, [code |-> code, pos |-> tokenPos(P)])]

\* if (violation) { error({code}) }
orderErrorIf(violation, P, code) == IF violation THEN orderError(P, code) ELSE P

Statement(kind, pos, blockless) == [kind |-> kind, pos |-> pos, blockless |-> blockless]

RECURSIVE parseStatementList(_)

\* parseNamespaceStatement(pos, decorators) after the name: the state after
\* it, and whether the node is a blockless namespace
parseNamespaceBody(P) ==
    IF token(P) = "OpenBrace"
    THEN [P |-> parseExpected(
                    parseStatementList(parseExpectedOneOf(P, <<"Semicolon", "OpenBrace">>)),
                    "CloseBrace"),
          blockless |-> FALSE]
    ELSE [P |-> parseExpectedOneOf(P, <<"Semicolon", "OpenBrace">>), blockless |-> TRUE]

parseNamespaceStatement(P) ==
    parseNamespaceBody(parseIdentifier(parseExpected(P, "NamespaceKeyword")).P)

\* parseStatementList: a namespace statement parsed in a block
namespaceInBlock(ns) ==
    IF ns.blockless
    THEN [errorHere(ns.P, "blockless-namespace-first")
            EXCEPT !.nested = Append(@, "blockless-namespace-first")]
    ELSE ns.P

\* parseStatementList: the switch on the token after the decorators d
parseBlockStatement(d) ==
    CASE token(d.P) = "ImportKeyword" ->
            parseImportStatement(
                [errorHere(reportInvalidDecoratorList(d), "import-first")
                    EXCEPT !.nested = Append(@, "import-first")])
      [] token(d.P) = "NamespaceKeyword" -> namespaceInBlock(parseNamespaceStatement(d.P))
      [] token(d.P) = "Semicolon" -> parseEmptyStatement(reportInvalidDecoratorList(d))
      [] token(d.P) = EndOfFile -> parseExpected(d.P, "CloseBrace")
      [] OTHER -> parseInvalidStatement(reportInvalidDecoratorList(d))

\* parseStatementList: the end of an iteration that began at P, tok being
\* the token the switch was on
nextBlockItem(P, tok, Q) ==
    IF tok = EndOfFile THEN Q
    ELSE IF noProgress(P, Q) THEN [Q EXCEPT !.stuck = TRUE]
    ELSE parseStatementList(Q)

\* parseStatementList: an iteration that began at P, after its decorators d
parseBlockItem(P, d) == nextBlockItem(P, token(d.P), parseBlockStatement(d))

parseStatementList(P) ==
    IF token(P) = "CloseBrace" THEN P
    ELSE parseBlockItem(P, parseDecoratorList(parseDirectiveList(P), <<>>))

\* parseCadlScriptItemList: a namespace statement parsed at pos
namespaceItem(pos, ns) ==
    [P |-> ns.P, item |-> Statement("NamespaceStatement", pos, ns.blockless)]

\* parseCadlScriptItemList: the switch on the token after the decorators d,
\* for the item that began at pos: the state after it, and the item
parseScriptStatement(pos, d) ==
    CASE token(d.P) = "ImportKeyword" ->
            [P |-> parseImportStatement(reportInvalidDecoratorList(d)),
             item |-> Statement("ImportStatement", pos, FALSE)]
      [] token(d.P) = "NamespaceKeyword" -> namespaceItem(pos, parseNamespaceStatement(d.P))
      [] token(d.P) = "Semicolon" ->
            [P |-> parseEmptyStatement(reportInvalidDecoratorList(d)),
             item |-> Statement("EmptyStatement", pos, FALSE)]
      [] OTHER ->
            [P |-> parseInvalidStatement(reportInvalidDecoratorList(d)),
             item |-> Statement("InvalidStatement", pos, FALSE)]

\* parseCadlScriptItemList: the order checks on the item parsed, and
\* stmts.push(item)
checkStatementOrder(s, seenBlocklessNs, seenDecl) ==
    [orderErrorIf(s.item.kind = "ImportStatement" /\ (seenDecl \/ seenBlocklessNs),
        orderErrorIf(s.item.blockless /\ seenDecl,
            orderErrorIf(s.item.blockless /\ seenBlocklessNs,
                s.P, "multiple-blockless-namespace"),
            "blockless-namespace-first"),
        "import-first")
     EXCEPT !.stmts = Append(@, s.item)]

RECURSIVE parseCadlScriptItemList(_, _, _)

\* parseCadlScriptItemList: the end of an iteration that began at P
nextScriptItem(P, Q, seenBlocklessNs, seenDecl) ==
    IF noProgress(P, Q) THEN [Q EXCEPT !.stuck = TRUE]
    ELSE parseCadlScriptItemList(Q, seenBlocklessNs, seenDecl)

\* parseCadlScriptItemList: the iteration that began at P, from the order
\* checks on the statement s parsed
parseScriptItem(P, s, seenBlocklessNs, seenDecl) ==
    nextScriptItem(P, checkStatementOrder(s, seenBlocklessNs, seenDecl),
        seenBlocklessNs \/ s.item.blockless,
        seenDecl \/ (~s.item.blockless /\ s.item.kind # "ImportStatement"))

parseCadlScriptItemList(P, seenBlocklessNs, seenDecl) ==
    IF eof(P) THEN P
    ELSE parseScriptItem(P,
            parseScriptStatement(tokenPos(P), parseDecoratorList(parseDirectiveList(P), <<>>)),
            seenBlocklessNs, seenDecl)

\* parseCadlScript(): the CadlScriptNode made of the state P at the end
parseCadlScript(P) ==
    [done |-> TRUE, kind |-> "CadlScript", statements |-> P.stmts,
     parseDiagnostics |-> P.diags, printable |-> P.printable,
     directives |-> P.directives, forbidden |-> P.forbidden, stalls |-> P.stalls,
     violations |-> P.violations, stuck |-> P.stuck, raised |-> P.raised,
     end |-> P.i]

\* parse(code): the CadlScriptNode it returns
parse(code) ==
    parseCadlScript(
        parseCadlScriptItemList(
            nextToken(
                [toks |-> code, i |-> 0, prevEnd |-> 0, lastErr |-> 0, printable |-> TRUE,
                 nlTrivia |-> TRUE, diags |-> <<>>, stmts |-> <<>>, directives |-> <<>>,
                 forbidden |-> {}, stalls |-> <<>>, violations |-> <<>>, nested |-> <<>>,
                 stuck |-> FALSE, raised |-> FALSE]),
            FALSE, FALSE))

----------------------------------------------------------------------------
(* parse(code) on any text of at most MaxTokens tokens *)
TokenSeqs == UNION {[1..n -> ParserTokens] : n \in 0..MaxTokens}

ParseUntouched ==
    UNCHANGED <<diagVars, symVars, regVars, loadVars, bindVars, jsVars, checkVars, typeVars>>

InitParse ==
    /\ DiagIdle /\ SymIdle /\ RegIdle /\ LoadIdle /\ BindIdle /\ JsIdle /\ CheckIdle /\ TypeIdle
    /\ parseInput \in TokenSeqs
    /\ parseOutput = NotParsed

Parse ==
    /\ ~parseOutput.done
    /\ parseOutput' = parse(parseInput)
    /\ UNCHANGED parseInput
    /\ ParseUntouched

NextParse == Parse

SpecParse == InitParse /\ [][NextParse]_vars

----------------------------------------------------------------------------
(* The checker's handling of model heritage.  checker.ts is not part of the *)
(* sources at hand: this follows the specification's "Cycle detection" and  *)
(* the programs of test/checker/model.ts.  Models are numbered in source    *)
(* order; each has at most one `extends` or `is` link, and one model of the *)
(* program has a property whose type is a model.                            *)
ModelNames == <<"A", "B", "C", "D">>

NoHeritage == [kind |-> "none", target |-> 0]

\* The heritage clauses a model among n can have
HeritageLinks(n) ==
    {NoHeritage} \cup {[kind |-> k, target |-> t] : k \in {"extends", "is"}, t \in 1..n}

\* The property a program of n models can have
Properties(n) ==
    {NoProperty} \cup {[owner |-> o, target |-> t] : o \in 1..n, t \in 1..n}

\* "Model type 'X' recursively references itself as a base type."
RecursiveBase(model) == [code |-> "recursive-base", typeName |-> ModelNames[model]]

RECURSIVE walkBaseChain_NoReentryTest(_, _, _, _, _)
walkBaseChain_NoReentryTest(heritage, cut, start, cur, visited) ==
    LET target == IF cur \in cut THEN 0 ELSE heritage[cur].target IN
    IF target = 0 THEN [recursive |-> FALSE, at |-> 0]
    ELSE IF target \in visited THEN [recursive |-> FALSE, at |-> 0]
    ELSE walkBaseChain_NoReentryTest(heritage, cut, start, target, visited \cup {target})

\* The walk of the base chain of `start`, now at `cur`: whether it re-enters
\* the starting declaration, and the model whose link does (the cycle point).
\* A link already cut ends the chain.
RECURSIVE walkBaseChain(_, _, _, _, _)
walkBaseChain(heritage, cut, start, cur, visited) ==
    LET target == IF cur \in cut THEN 0 ELSE heritage[cur].target IN
    IF target = 0 THEN [recursive |-> FALSE, at |-> 0]
    ELSE IF target = start THEN [recursive |-> TRUE, at |-> cur]
    ELSE IF target \in visited THEN [recursive |-> FALSE, at |-> 0]
    ELSE walkBaseChain(heritage, cut, start, target, visited \cup {target})

CheckUntouched ==
    UNCHANGED <<diagVars, symVars, regVars, loadVars, bindVars, jsVars, parseVars, typeVars>>

InitCheck ==
    /\ DiagIdle /\ SymIdle /\ RegIdle /\ LoadIdle /\ BindIdle /\ JsIdle /\ ParseIdle /\ TypeIdle
    /\ \E n \in 1..MaxModels :
        \E h \in [1..n -> HeritageLinks(n)], q \in Properties(n) :
            checkInput = [heritage |-> h, property |-> q]
    /\ checkNext = 1
    /\ baseModel = <<>>
    /\ cutLinks = {}
    /\ checkDiagnostics = <<>>
    /\ propertyType = 0

\* The heritage of the next model in source order is finalized: its base
\* chain is walked, a chain that re-enters it is reported and cut.
CheckModelHeritage ==
    /\ checkNext <= Len(checkInput.heritage)
    /\ LET walk == walkBaseChain(checkInput.heritage, cutLinks, checkNext, checkNext,
                                 {checkNext})
           cut == IF walk.recursive THEN cutLinks \cup {walk.at} ELSE cutLinks
       IN  /\ cutLinks' = cut
           /\ checkDiagnostics' =
                IF walk.recursive THEN Append(checkDiagnostics, RecursiveBase(checkNext))
                ELSE checkDiagnostics
           /\ baseModel' =
                Append(baseModel,
                       IF checkNext \in cut THEN 0 ELSE checkInput.heritage[checkNext].target)
    /\ checkNext' = checkNext + 1
    /\ UNCHANGED <<checkInput, propertyType>>
    /\ CheckUntouched

\* The type of the property of a model checked is resolved: a reference to
\* the model's type, which is no base link.
CheckModelProperty ==
    /\ checkInput.property.owner # 0
    /\ checkInput.property.owner < checkNext
    /\ propertyType = 0
    /\ propertyType' = checkInput.property.target
    /\ UNCHANGED <<checkInput, checkNext, baseModel, cutLinks, checkDiagnostics>>
    /\ CheckUntouched

NextCheck == CheckModelHeritage \/ CheckModelProperty

SpecCheck == InitCheck /\ [][NextCheck]_vars

----------------------------------------------------------------------------
(* The checker's handling of `using`.  checker.ts is not part of the        *)
(* sources at hand: setUsingsForFile and the resolution of references       *)
(* follow the specification's "Symbols" and "Name resolution", the programs *)
(* of test/checker/using.ts, and the calls evalCadlScript makes in          *)
(* program.ts; SymbolTable.set and reportDuplicateSymbols are the code's.   *)
(* The program has the namespaces N and M; the file names them in its using *)
(* statements and refers to names they export.                              *)
Namespaces == {"N", "M"}

\* The names of a namespace's exports, in the order of the table.
NameOrder == <<"A", "B">>

\* The using symbol the i-th using statement makes for the k-th name.
UsingSymbol(i, k) == UsingBase + 10 * i + k

\* The locals of the file and the using symbols marked, as one record.
UsingState == [locals |-> tables[1], marked |-> usingDuplicate]

afterSet(st, r) ==
    [locals |-> TableOnly(r), marked |-> st.marked \cup ({r.marked} \ {None})]

\* One using statement: every export of the namespace is set in the file's
\* locals under its name, as a new using symbol that refers to it.
RECURSIVE setUsing(_, _, _, _)
setUsing(st, exports, i, k) ==
    IF k > Len(NameOrder) THEN st
    ELSE IF NameOrder[k] \notin exports THEN setUsing(st, exports, i, k + 1)
    ELSE setUsing(afterSet(st, SymbolTableSet(st.locals, NameOrder[k], UsingSymbol(i, k))),
                  exports, i, k + 1)

\* setUsingsForFile(file): the using statements of the file, in order.
RECURSIVE setUsingsForFile(_, _, _)
setUsingsForFile(st, file, i) ==
    IF i > Len(file.usings) THEN st
    ELSE setUsingsForFile(setUsing(st, file.exports[file.usings[i]], i, 1), file, i + 1)

\* A reference to the k-th name, as a diagnostic target.
ReferenceTarget(k) == Target("node", k, 0, <<[node |-> k, directives |-> <<>>]>>)

\* A reference resolves to a using symbol marked duplicate: ambiguous.
isAmbiguous(locals, marked, name) ==
    /\ locals.map[name] # None
    /\ SymKind(locals.map[name]) = "using"
    /\ locals.map[name] \in marked

\* The references of the file are resolved, in order: one ambiguous-symbol
\* diagnostic at each use of a name whose using symbol is marked duplicate.
RECURSIVE checkReferences(_, _, _, _)
checkReferences(st, file, marked, k) ==
    IF k > Len(NameOrder) THEN st
    ELSE IF NameOrder[k] \in file.references /\ isAmbiguous(tables[1], marked, NameOrder[k])
    THEN checkReferences(reportDiagnostic(st, createDiagnostic("ambiguous-symbol",
                                                              ReferenceTarget(k))),
                         file, marked, k + 1)
    ELSE checkReferences(st, file, marked, k + 1)

\* The names the using statements of a file bring into scope.
UsedNames(exports, usings) == UNION { exports[usings[i]] : i \in DOMAIN usings }

UsingUntouched ==
    UNCHANGED <<directives, calls, lastCall, symLog, regVars, loadVars, bindVars, jsVars,
                parseVars, checkVars, serviceVars, modelVars>>

\* A bound file: its using statements are collected, its locals are empty.
InitUsing ==
    /\ DiagIdle /\ SymIdle /\ RegIdle /\ LoadIdle /\ BindIdle /\ JsIdle /\ ParseIdle /\ CheckIdle
    /\ ServiceIdle /\ ModelIdle
    /\ \E exports \in [Namespaces -> SUBSET Names], usings \in SeqsUpTo(Namespaces, MaxUsings) :
          \E references \in SUBSET UsedNames(exports, usings) :
              usingFile = [exports |-> exports, usings |-> usings, references |-> references]
    /\ usingPhase = "bound"

\* checker.setUsingsForFile(file)
SetUsingsForFile ==
    /\ usingPhase = "bound"
    /\ usingPhase' = "usings"
    /\ LET st == setUsingsForFile(UsingState, usingFile, 1)
       IN /\ tables' = [tables EXCEPT ![1] = st.locals]
          /\ usingDuplicate' = st.marked
    /\ UNCHANGED <<usingFile, diagnostics, error, raised, duplicateSymbols>>
    /\ UsingUntouched

\* reportDuplicateSymbols(file.locals)
ReportUsingDuplicates ==
    /\ usingPhase = "usings"
    /\ usingPhase' = "reported"
    /\ LET r == reportDuplicateSymbols(Sink, duplicateSymbols, tables[1])
       IN /\ diagnostics' = r.sink.diagnostics
          /\ error' = r.sink.error
          /\ raised' = r.sink.raised
          /\ duplicateSymbols' = r.duplicateSymbols
    /\ UNCHANGED <<usingFile, tables, usingDuplicate>>
    /\ UsingUntouched

\* The statements of the file are checked: its references are resolved.
CheckReferences ==
    /\ usingPhase = "reported" /\ ~raised
    /\ usingPhase' = "checked"
    /\ LET st == checkReferences(Sink, usingFile, usingDuplicate, 1)
       IN /\ diagnostics' = st.diagnostics
          /\ error' = st.error
          /\ raised' = st.raised
    /\ UNCHANGED <<usingFile, tables, usingDuplicate, duplicateSymbols>>
    /\ UsingUntouched

NextUsing == SetUsingsForFile \/ ReportUsingDuplicates \/ CheckReferences

SpecUsing == InitUsing /\ [][NextUsing]_vars

----------------------------------------------------------------------------
(* The rest library's service decorators ($serviceTitle, $serviceHost,      *)
(* $serviceVersion) and setServiceHost, applied to the types of one         *)
(* program.  Entities 1 and 2 are namespaces, entity 3 is a model.          *)
Entities == {1, 2, 3}
EntityKind(entity) == IF entity = 3 THEN "Model" ELSE "Namespace"
ServiceValues == {"v1", "v2"}

EntityTarget(entity) == Target("type", entity, 0, <<[node |-> entity, directives |-> <<>>]>>)

\* The service details of the program and its diagnostics sink, as one record.
Service == [details |-> serviceDetails, sink |-> Sink]

\* lib.ts reportDiagnostic(program, {code, target})
libReportDiagnostic(S, code, entity) ==
    [S EXCEPT !.sink = reportDiagnostic(S.sink, createDiagnostic(code, EntityTarget(entity)))]

reportIf(S, condition, code, entity) ==
    IF condition THEN libReportDiagnostic(S, code, entity) ELSE S

\* setServiceNamespace(program, namespace)
setServiceNamespace(S, namespace) ==
    [reportIf(S, S.details.namespace # 0 /\ S.details.namespace # namespace,
              "service-namespace-duplicate", namespace)
        EXCEPT !.details.namespace = namespace]

\* The second half of each decorator: the entity must be a namespace, which
\* becomes the service namespace, and then the detail is stored.
setServiceDetail(S, entity, onlyCode, field, value) ==
    IF EntityKind(entity) # "Namespace" THEN libReportDiagnostic(S, onlyCode, entity)
    ELSE [setServiceNamespace(S, entity) EXCEPT !.details[field] = value]

\* $serviceTitle(program, entity, title)
serviceTitle(S, entity, title) ==
    setServiceDetail(reportIf(S, S.details.title # "undefined", "service-title-duplicate", entity),
                     entity, "service-title-namespace-only", "title", title)

\* $serviceHost(program, entity, host)
serviceHost(S, entity, host) ==
    setServiceDetail(reportIf(S, S.details.version # "undefined", "service-version-duplicate",
                              entity),
                     entity, "service-version-namespace-only", "host", host)

\* setServiceHost(program, host)
setServiceHost(S, host) == [S EXCEPT !.details.host = host]

\* $serviceVersion(program, entity, version)
serviceVersion(S, entity, version) ==
    setServiceDetail(reportIf(S, S.details.version # "undefined", "service-version-duplicate",
                              entity),
                     entity, "service-version-namespace-only", "version", version)

ServiceUntouched ==
    UNCHANGED <<directives, calls, lastCall, symVars, regVars, loadVars, bindVars, jsVars,
                parseVars, checkVars, usingVars, modelVars>>

InitService ==
    /\ DiagIdle /\ SymIdle /\ RegIdle /\ LoadIdle /\ BindIdle /\ JsIdle /\ ParseIdle /\ CheckIdle
    /\ UsingIdle /\ ModelIdle
    /\ serviceDetails = NoServiceDetails
    /\ serviceApplied = <<>>

\* A decorator call has run: the program takes its result.
Applied(decorator, S) ==
    /\ serviceDetails' = S.details
    /\ diagnostics' = S.sink.diagnostics
    /\ error' = S.sink.error
    /\ raised' = S.sink.raised
    /\ serviceApplied' = Append(serviceApplied, [decorator |-> decorator,
                                                 before |-> serviceDetails,
                                                 pre |-> Len(diagnostics)])
    /\ ServiceUntouched

ServiceTitle ==
    /\ Len(serviceApplied) < MaxDecorators
    /\ \E entity \in Entities, title \in ServiceValues :
          Applied("serviceTitle", serviceTitle(Service, entity, title))

ServiceHost ==
    /\ Len(serviceApplied) < MaxDecorators
    /\ \E entity \in Entities, host \in ServiceValues :
          Applied("serviceHost", serviceHost(Service, entity, host))

SetServiceHost ==
    /\ Len(serviceApplied) < MaxDecorators
    /\ \E host \in ServiceValues : Applied("setServiceHost", setServiceHost(Service, host))

ServiceVersion ==
    /\ Len(serviceApplied) < MaxDecorators
    /\ \E entity \in Entities, version \in ServiceValues :
          Applied("serviceVersion", serviceVersion(Service, entity, version))

NextService == ServiceTitle \/ ServiceHost \/ SetServiceHost \/ ServiceVersion

SpecService == InitService /\ [][NextService]_vars

----------------------------------------------------------------------------
(* The checker's model statements: template instantiation, `is`, spread     *)
(* and decorator invocation.  checker.ts is not part of the sources at      *)
(* hand: this follows the specification's "Template instantiation",         *)
(* "Composition" and "Decorator application" and the programs of            *)
(* test/checker/model.ts and test/checker/spread.ts.  The program declares  *)
(* the models B, C and A, the models that refer to A first, so that A is    *)
(* checked when the first reference to it is; the one decorator is blue,    *)
(* which records the target it is invoked with (test/checker/spread.ts).    *)
StatementOrder == <<"B", "C", "A">>
Models == {"A", "B", "C"}
Intrinsics == {"string", "int32"}
TemplateArguments == {"string", "int32"}

\* A type reference: a name and, for a template, its argument ("T" is the
\* template parameter of the enclosing declaration).
Ref(name, arg) == [name |-> name, arg |-> arg]
NoRef == Ref("none", "none")

\* A reference to declaration A, with an argument when A is a template.
RefA(templated, arg) == Ref("A", IF templated THEN arg ELSE "none")

PropertyNode(name, ref, decorated) ==
    [name |-> name, ref |-> ref, decorators |-> IF decorated THEN <<"blue">> ELSE <<>>]

\* model A<T> { foo: T; next: ... } or model A { foo: string; next: ... }
DeclarationA(templated, decorated, fooDecorated, next) ==
    [templated |-> templated,
     decorators |-> IF decorated THEN <<"blue">> ELSE <<>>,
     is |-> NoRef,
     spreads |-> <<>>,
     properties |->
        <<PropertyNode("foo", Ref(IF templated THEN "T" ELSE "string", "none"), fooDecorated)>>
        \o (IF next = "none" THEN <<>>
            ELSE IF next = "A" THEN <<PropertyNode("next", RefA(templated, "T"), FALSE)>>
            ELSE <<PropertyNode("next", Ref(next, "none"), FALSE)>>)]

\* model B [is A<string>] { bar: string }
DeclarationB(isA, barDecorated, templatedA) ==
    [templated |-> FALSE,
     decorators |-> <<>>,
     is |-> IF isA THEN RefA(templatedA, "string") ELSE NoRef,
     spreads |-> <<>>,
     properties |-> <<PropertyNode("bar", Ref("string", "none"), barDecorated)>>]

\* model C [is A<arg>] { ...M1, ...Mn }
DeclarationC(isA, spreads, arg, templatedA) ==
    [templated |-> FALSE,
     decorators |-> <<>>,
     is |-> IF isA THEN RefA(templatedA, arg) ELSE NoRef,
     spreads |-> [i \in DOMAIN spreads |->
                    IF spreads[i] = "A" THEN RefA(templatedA, arg) ELSE Ref(spreads[i], "none")],
     properties |-> <<>>]

\* What checking a model statement does, in order: its `is` clause, its
\* spreads, its own properties.
Items(decl) ==
    (IF decl.is = NoRef THEN <<>> ELSE <<[kind |-> "is", ref |-> decl.is, node |-> 0]>>)
    \o [i \in DOMAIN decl.spreads |-> [kind |-> "spread", ref |-> decl.spreads[i], node |-> 0]]
    \o [i \in DOMAIN decl.properties |->
            [kind |-> "property", ref |-> decl.properties[i].ref, node |-> i]]

NoLinks == [declaredType |-> 0, instantiations |-> [arg \in TemplateArguments |-> 0]]

IntrinsicType(name) == [kind |-> "Intrinsic", name |-> name, id |-> 0]
ModelType(name, id) == [kind |-> "Model", name |-> name, id |-> id]

NoSource == [type |-> 0, name |-> "none"]

\* The checker's state as one record.
Checker ==
    [types |-> types, symbolLinks |-> symbolLinks, decoratorCalls |-> decoratorCalls,
     typeDiagnostics |-> typeDiagnostics]

\* The argument a reference passes, inside an instantiation with `arg`.
ArgumentOf(ref, arg) == IF ref.arg = "T" THEN arg ELSE ref.arg

\* The type a reference to a model resolves to: the declared type, or the
\* memoized instantiation of a template; 0 when there is none yet.
instantiations_NoMemo(links, ref, arg) ==
    IF ref.arg = "none" THEN links[ref.name].declaredType ELSE 0

instantiations(links, ref, arg) ==
    IF ref.arg = "none" THEN links[ref.name].declaredType
    ELSE links[ref.name].instantiations[ArgumentOf(ref, arg)]

\* checkTypeReference: the type of a reference whose model type exists.
checkTypeReference(links, ref, arg) ==
    IF ref.name \in Intrinsics THEN IntrinsicType(ref.name)
    ELSE IF ref.name = "T" THEN IntrinsicType(arg)
    ELSE ModelType(ref.name, instantiations(links, ref, arg))

\* A reference to a model whose type does not exist yet.
Unresolved(links, ref, arg) ==
    /\ ref.name \in Models
    /\ instantiations(links, ref, arg) = 0

\* The decorators of a type are invoked once each, in source order, with
\* the type as target.
runDecorators(decorators, target) ==
    [i \in DOMAIN decorators |-> [decorator |-> decorators[i], target |-> target]]

PropertyTarget(id, name) == [kind |-> "ModelProperty", type |-> id, name |-> name]
ModelTarget(id) == [kind |-> "Model", type |-> id, name |-> "none"]

HasProperty(type, name) == \E i \in DOMAIN type.properties : type.properties[i].name = name

\* The properties among `props` that become members of a model type: those
\* whose name the type does not have.  (The properties of one model, and so
\* their copies, have distinct names.)
NewProperties(type, props) ==
    LET IsNew(prop) == ~HasProperty(type, prop.name) IN SelectSeq(props, IsNew)

\* The decorators of each new property are invoked with the property of the
\* model type `id` as target.
RECURSIVE runPropertyDecorators(_, _, _)
runPropertyDecorators(props, id, i) ==
    IF i > Len(props) THEN <<>>
    ELSE runDecorators(props[i].decorators, PropertyTarget(id, props[i].name))
         \o runPropertyDecorators(props, id, i + 1)

\* Properties become members of the model type `id`, in order: the
\* decorators of each are invoked with the new property as target.  A name
\* the model has already is reported and the property dropped.
added(C, id, new, dropped) ==
    [C EXCEPT !.types[id].properties = @ \o new,
              !.decoratorCalls = @ \o runPropertyDecorators(new, id, 1),
              !.typeDiagnostics = @ \o [k \in 1..dropped |-> "duplicate-property"]]

addProperties(C, id, props) ==
    CHOOSE after \in {added(C, id, new, Len(props) - Len(new)) :
                        new \in {NewProperties(C.types[id], props)}} : TRUE

\* The copy of a property that a spread makes: it carries the decorators of
\* the original and a sourceProperty link to it.
checkSpreadProperty_NoDecorators(prop, source) ==
    [name |-> prop.name, type |-> prop.type, decorators |-> <<>>,
     sourceProperty |-> [type |-> source, name |-> prop.name]]

checkSpreadProperty(prop, source) ==
    [name |-> prop.name, type |-> prop.type, decorators |-> prop.decorators,
     sourceProperty |-> [type |-> source, name |-> prop.name]]

\* The copy of a property that `is` makes: a clone with no link.
cloneProperty(prop) == [prop EXCEPT !.sourceProperty = NoSource]

\* The properties of the model type `source` are copied into the model
\* type `id`.
copyProperties(C, id, source, kind) ==
    addProperties(C, id,
                  [i \in DOMAIN C.types[source].properties |->
                        IF kind = "spread"
                        THEN checkSpreadProperty(C.types[source].properties[i], source)
                        ELSE cloneProperty(C.types[source].properties[i])])

\* `is`: the decorators of the base come first, then the model's own.
checkModelIs(C, id, source) ==
    [copyProperties(C, id, source, "is")
        EXCEPT !.types[id].decorators = C.types[source].decorators \o @]

\* One item of the model statement of type `id` is checked; what it refers to
\* has the type `type`.
checkItem(C, id, decl, item, type) ==
    IF item.kind = "is" THEN checkModelIs(C, id, type.id)
    ELSE IF item.kind = "spread" THEN copyProperties(C, id, type.id, "spread")
    ELSE addProperties(C, id, <<[name |-> decl.properties[item.node].name,
                                 type |-> type,
                                 decorators |-> decl.properties[item.node].decorators,
                                 sourceProperty |-> NoSource]>>)

\* A new model type for the declaration `name`, instantiated with `arg`
\* ("none" for a declaration without template parameters): it is recorded at
\* once, so that references from its own body find it.
newModelType(C, decls, name, arg) ==
    LET id == Len(C.types) + 1 IN
    [C EXCEPT !.types = Append(@, [name |-> name, arg |-> arg, properties |-> <<>>,
                                   decorators |-> decls[name].decorators,
                                   finished |-> FALSE]),
              !.symbolLinks[name] =
                    IF arg = "none" THEN [@ EXCEPT !.declaredType = id]
                    ELSE [@ EXCEPT !.instantiations[arg] = id]]

\* A declaration with template parameters is not realized into a type until
\* it is instantiated.
realizesType_Always(decl) == TRUE

realizesType(decl) == ~decl.templated

CheckingFrame == checking[Len(checking)]
TopType == types[CheckingFrame.type]
TopDeclaration == declarations[TopType.name]
TopItems == Items(TopDeclaration)
AtItem == checking # <<>> /\ CheckingFrame.pos <= Len(TopItems)
TopItem == TopItems[CheckingFrame.pos]
TopUnresolved == Unresolved(symbolLinks, TopItem.ref, TopType.arg)

ModelUntouched ==
    UNCHANGED <<diagVars, symVars, regVars, loadVars, bindVars, jsVars, parseVars, checkVars,
                usingVars, serviceVars>>

InitModel ==
    /\ DiagIdle /\ SymIdle /\ RegIdle /\ LoadIdle /\ BindIdle /\ JsIdle /\ ParseIdle /\ CheckIdle
    /\ UsingIdle /\ ServiceIdle
    /\ \E templated \in BOOLEAN, decorated \in BOOLEAN, fooDecorated \in BOOLEAN,
          next \in {"none", "A", "B"}, isB \in BOOLEAN, barDecorated \in BOOLEAN,
          isC \in BOOLEAN, spreads \in SeqsUpTo({"A", "B"}, MaxSpreads),
          arg \in TemplateArguments :
            declarations = [name \in Models |->
                IF name = "A" THEN DeclarationA(templated, decorated, fooDecorated, next)
                ELSE IF name = "B" THEN DeclarationB(isB, barDecorated, templated)
                ELSE DeclarationC(isC, spreads, arg, templated)]
    /\ types = <<>>
    /\ symbolLinks = [name \in Models |-> NoLinks]
    /\ checking = <<>>
    /\ nextStatement = 1
    /\ decoratorCalls = <<>>
    /\ typeDiagnostics = <<>>

\* The checker's state after a step
CheckerState(C) ==
    /\ types' = C.types
    /\ symbolLinks' = C.symbolLinks
    /\ decoratorCalls' = C.decoratorCalls
    /\ typeDiagnostics' = C.typeDiagnostics

\* A model type is created and its statement entered.
Entered(name, arg) ==
    \E C \in {newModelType(Checker, declarations, name, arg)} :
        /\ CheckerState(C)
        /\ checking' = Append(checking, [type |-> Len(C.types), pos |-> 1])

\* checkProgram reaches the next statement of the file.  A template, and a
\* model that a reference has had checked already, are passed over.
CheckModelStatement ==
    /\ checking = <<>>
    /\ nextStatement \in DOMAIN StatementOrder
    /\ nextStatement' = nextStatement + 1
    /\ LET name == StatementOrder[nextStatement] IN
        IF realizesType(declarations[name]) /\ symbolLinks[name].declaredType = 0
        THEN Entered(name, "none")
        ELSE UNCHANGED <<types, symbolLinks, checking, decoratorCalls, typeDiagnostics>>
    /\ UNCHANGED declarations
    /\ ModelUntouched

\* The item at hand refers to a model without template parameters that has
\* not been checked: its statement is checked first.
CheckReferencedModel ==
    /\ AtItem /\ TopUnresolved
    /\ TopItem.ref.arg = "none"
    /\ Len(checking) < MaxDepth
    /\ Entered(TopItem.ref.name, "none")
    /\ UNCHANGED <<declarations, nextStatement>>
    /\ ModelUntouched

\* instantiateTemplate: the item at hand refers to a template with an
\* argument it has not been instantiated with.
InstantiateTemplate ==
    /\ AtItem /\ TopUnresolved
    /\ TopItem.ref.arg # "none"
    /\ Len(checking) < MaxDepth
    /\ Entered(TopItem.ref.name, ArgumentOf(TopItem.ref, TopType.arg))
    /\ UNCHANGED <<declarations, nextStatement>>
    /\ ModelUntouched

\* The item at hand is checked: what it refers to has a type.
CheckItem ==
    /\ AtItem /\ ~TopUnresolved
    /\ \E type \in {checkTypeReference(symbolLinks, TopItem.ref, TopType.arg)} :
        \E C \in {checkItem(Checker, CheckingFrame.type, TopDeclaration, TopItem, type)} :
            CheckerState(C)
    /\ checking' = [checking EXCEPT ![Len(checking)].pos = @ + 1]
    /\ UNCHANGED <<declarations, nextStatement>>
    /\ ModelUntouched

\* The model statement is fully checked: its decorators are invoked with
\* the type as target.
FinishType ==
    /\ checking # <<>> /\ ~AtItem
    /\ types' = [types EXCEPT ![CheckingFrame.type].finished = TRUE]
    /\ decoratorCalls' =
            decoratorCalls \o runDecorators(TopType.decorators, ModelTarget(CheckingFrame.type))
    /\ checking' = SubSeq(checking, 1, Len(checking) - 1)
    /\ UNCHANGED <<declarations, symbolLinks, nextStatement, typeDiagnostics>>
    /\ ModelUntouched

NextModel ==
    \/ CheckModelStatement
    \/ CheckReferencedModel
    \/ InstantiateTemplate
    \/ CheckItem
    \/ FinishType

SpecModel == InitModel /\ [][NextModel]_vars

\* The checker runs each model statement to its end.
SpecModelFair == SpecModel /\ WF_vars(NextModel)

----------------------------------------------------------------------------
(* Properties of the diagnostics sink, over SpecDiag *)

HasErrorDiagnostic(ds) == \E i \in 1..Len(ds) : ds[i].severity = "error"

\* The suppress directives on the target's node or an ancestor that name the code.
SuppressingDirectives(d) ==
    { Target("directive", d.target.chain[i].node, j, <<>>) :
        <<i, j>> \in { p \in (1..Len(d.target.chain)) \X (1..2) :
                        /\ p[2] <= Len(d.target.chain[p[1]].directives)
                        /\ d.target.chain[p[1]].directives[p[2]].name = "suppress"
                        /\ Len(d.target.chain[p[1]].directives[p[2]].args) >= 1
                        /\ d.target.chain[p[1]].directives[p[2]].args[1] = d.code } }

\* C1: an error-severity diagnostic whose target node or an ancestor carries a
\* #suppress directive naming its code is still appended, preceded by exactly
\* one suppress-error diagnostic that targets that directive.
C1_ErrorsNeverSuppressed ==
    (/\ lastCall.valid
     /\ lastCall.d.severity = "error"
     /\ getNodeDefined(lastCall.d.target)
     /\ SuppressingDirectives(lastCall.d) # {})
    => \E m \in SuppressingDirectives(lastCall.d) :
          diagnostics = lastCall.pre \o <<Diagnostic("suppress-error", "error", m), lastCall.d>>

\* C2: a non-error diagnostic whose target resolves to a node is left out of the
\* list exactly when that node or an ancestor carries a #suppress directive
\* whose first argument is the diagnostic's code.
C2_SuppressionScope ==
    (/\ lastCall.valid
     /\ lastCall.d.severity # "error"
     /\ getNodeDefined(lastCall.d.target))
    => /\ (SuppressingDirectives(lastCall.d) # {}) <=> (diagnostics = lastCall.pre)
       /\ (SuppressingDirectives(lastCall.d) = {}) <=> (diagnostics = lastCall.pre \o <<lastCall.d>>)

\* C3: hasError() is false while nothing has been reported, is true after any
\* reportDiagnostic call with an error-severity diagnostic, stays true once
\* true, and is true exactly when the list holds an error-severity diagnostic.
C3_HasErrorIffErrorReported ==
    /\ hasError <=> HasErrorDiagnostic(diagnostics)
    /\ (diagnostics = <<>> /\ ~lastCall.valid) => ~hasError
    /\ (lastCall.valid /\ lastCall.d.severity = "error") => hasError
    /\ (lastCall.valid /\ HasErrorDiagnostic(lastCall.pre)) => hasError

\* Witness of C3: a suppressed warning left hasError() false, and the next
\* call, the first with an error-severity diagnostic, made it true.
C3_Witness ==
    /\ calls = 2
    /\ lastCall.valid
    /\ lastCall.pre = <<>>
    /\ lastCall.d.severity = "error"
    /\ SuppressingDirectives(lastCall.d) # {}
    /\ hasError

----------------------------------------------------------------------------
(* Properties of symbol tables, over SpecSym *)

\* The set calls made on table t under the name, in order.
SetsOf(t, key) == SelectSeq(symLog, LAMBDA c : c.op = "set" /\ c.table = t /\ c.key = key)

\* The duplicate set recorded in table t for the symbol ({} when none is).
DuplicateSetOf(t, sym) ==
    LET i == DuplicatesIndex(tables[t].duplicates, sym)
    IN IF i = 0 THEN {} ELSE tables[t].duplicates[i].set

\* C4: get(name) is the first symbol ever set under the name; every symbol set
\* under it later is in the duplicate set recorded for that first symbol, with
\* the first symbol itself; a name never set is unbound.
C4_FirstWins ==
    \A t \in TableIds, key \in Names :
        LET sets == SetsOf(t, key)
        IN IF sets = <<>>
           THEN tables[t].map[key] = None
           ELSE /\ tables[t].map[key] = sets[1].value
                /\ \A i \in 2..Len(sets) :
                      /\ sets[i].value \in DuplicateSetOf(t, sets[1].value)
                      /\ sets[1].value \in DuplicateSetOf(t, sets[1].value)

\* Witness of C4: three different symbols were set under one name of one table.
C4_Witness ==
    \E t \in TableIds, key \in Names :
        /\ Len(SetsOf(t, key)) = 3
        /\ tables[t].map[key] = 1
        /\ DuplicateSetOf(t, 1) = {1, 2, 3}

\* The duplicate-symbol diagnostics that target the symbol itself.
DuplicateDiagnosticsOf(sym) ==
    { i \in 1..Len(diagnostics) :
        /\ diagnostics[i].code = "duplicate-symbol"
        /\ diagnostics[i].target.kind = "type"
        /\ diagnostics[i].target.node = sym }

\* C5: right after a reportDuplicateSymbols call on a table, each symbol
\* recorded in that table's duplicates has exactly one duplicate-symbol
\* diagnostic targeting it, however many calls were made before.
C5_DuplicatesReportedOnce ==
    (symLog # <<>> /\ symLog[Len(symLog)].op = "report")
    => LET t == symLog[Len(symLog)].table
       IN \A i \in 1..Len(tables[t].duplicates) :
             \A sym \in tables[t].duplicates[i].set :
                 Cardinality(DuplicateDiagnosticsOf(sym)) = 1

----------------------------------------------------------------------------
(* Properties of the state registry, over SpecReg *)

\* C10: every return for one key and kind is the same container; the first
\* return is empty and every return holds exactly what was written through
\* the containers returned for that key and kind; containers of different
\* keys, and the map and the set of one key, are different objects, so a
\* write to one never shows in another.
C10_StateRegistry ==
    /\ \A h1, h2 \in handles :
          (h1.key = h2.key /\ h1.kind = h2.kind) <=> (h1.object = h2.object)
    /\ \A h \in handles : heap[h.object] = written[<<h.key, h.kind>>]
    /\ lastReturn.valid => (lastReturn.content = lastReturn.expected)
    /\ (lastReturn.valid /\ lastReturn.first) => (lastReturn.content = EmptyContainer)

\* Witness of C10: the map of a key was returned again and had both targets
\* written, while the set of the same key holds one member and the map of the
\* other key is still empty.
C10_Witness ==
    /\ lastReturn.valid /\ lastReturn.kind = "map" /\ lastReturn.key = "k1"
    /\ lastReturn.content = [t \in RegTargets |-> "v1"]
    /\ stateSets["k1"] # None /\ heap[stateSets["k1"]]["t1"] = Present
    /\ heap[stateSets["k1"]]["t2"] = Absent
    /\ stateMaps["k2"] # None /\ heap[stateMaps["k2"]] = EmptyContainer

----------------------------------------------------------------------------
(* Properties of the loader, over SpecLoad *)

\* C6: each CADL path is requested from host.readFile at most once, and is
\* parsed, entered in sourceFiles and bound at most once.
C6_CadlFileLoadedOnce ==
    \A path \in CadlPaths :
        /\ counts[<<"readFile", path>>] <= 1
        /\ counts[<<"parse", path>>] <= 1
        /\ counts[<<"bind", path>>] <= 1
        /\ (sourceFiles[path] # NotLoaded) => counts[<<"bind", path>>] = 1

\* Witness of C6: loading is over; the main file imports a.cadl and itself,
\* a.cadl imports the main file back, and each was read, parsed and bound once.
C6_Witness ==
    /\ pc = "checked"
    /\ sourceFiles[MainPath] = <<Import("./a.cadl", <<>>), Import("./main.cadl", <<>>)>>
    /\ sourceFiles[APath] = <<Import("./main.cadl", <<>>)>>
    /\ processed = {<<MainPath, 1>>, <<MainPath, 2>>, <<APath, 1>>}
    /\ \A path \in {MainPath, APath} :
          counts[<<"readFile", path>>] = 1 /\ counts[<<"bind", path>>] = 1

\* C7: host.getJsImport is called at most once for an external module, its
\* exports are bound at most once and its $onValidate callback is registered
\* at most once.
C7_JsModuleLoadedOnce ==
    \A path \in JsPaths :
        /\ counts[<<"getJsImport", path>>] <= 1
        /\ counts[<<"bindJs", path>>] <= 1
        /\ Len(SelectSeq(validateCbs, LAMBDA cb : cb = path)) <= 1

\* The import statements of a loaded script.
ImportsOf(path) ==
    { i \in 1..Len(sourceFiles[path]) : sourceFiles[path][i].kind = "ImportStatement" }

\* C8: when loading has returned, every import statement of every loaded
\* script, whatever its position, has been handled by loadImports.
C8_EveryImportProcessed ==
    pc = "checked" =>
        \A path \in CadlPaths :
            sourceFiles[path] # NotLoaded =>
                \A i \in ImportsOf(path) : <<path, i>> \in processed

CompilerMismatchDiagnostics ==
    { i \in 1..Len(diagnostics) : diagnostics[i].code = "compiler-version-mismatch" }

\* C9: when the local compiler resolves to another path than the running one,
\* exactly one compiler-version-mismatch diagnostic is reported and the main
\* file is never read, parsed or bound; when none resolves or the paths are
\* equal, none is reported and the main file is read (and entered in
\* sourceFiles unless the read fails).
C9_CompilerVersionMismatch ==
    /\ compilerCheck = "mismatch" =>
          /\ Cardinality(CompilerMismatchDiagnostics) = 1
          /\ counts[<<"readFile", MainPath>>] = 0
          /\ counts[<<"parse", MainPath>>] = 0
          /\ counts[<<"bind", MainPath>>] = 0
          /\ sourceFiles[MainPath] = NotLoaded
    /\ compilerCheck = "ok" =>
          /\ CompilerMismatchDiagnostics = {}
          /\ counts[<<"readFile", MainPath>>] = 1
          /\ \/ sourceFiles[MainPath] # NotLoaded
             \/ \E i \in 1..Len(diagnostics) :
                   diagnostics[i] = createDiagnostic("file-not-found", NoTarget)
    /\ compilerCheck = "none" => CompilerMismatchDiagnostics = {}

\* Witness of C9: the mismatch was reported after the standard library was
\* loaded, and createProgram went on to the checker without the main file.
C9_Witness ==
    /\ pc = "checked"
    /\ compilerCheck = "mismatch"
    /\ sourceFiles[LibPath] # NotLoaded
    /\ sourceFiles[MainPath] = NotLoaded
    /\ Cardinality(CompilerMismatchDiagnostics) = 1

\* Reached as well: no local compiler or the same one, and the main file loaded.
C9_WitnessLoaded ==
    /\ pc = "checked"
    /\ compilerCheck = "ok"
    /\ Len(sourceFiles[MainPath]) = 2

----------------------------------------------------------------------------
(* Properties of the binder, over SpecBind *)

\* The namespace statements bound so far whose receiving table already held
\* their name for a namespace node.
MergeCases ==
    { i \in 1..Len(bindLog) :
        /\ bindLog[i].existing # None
        /\ KindOf(NodeOfSymbol(bindLog[i].existing)) = "NamespaceStatement" }

DuplicatesRecorded(table, sym) ==
    \E k \in 1..Len(bindTables[table].duplicates) : sym \in bindTables[table].duplicates[k].set

\* C11: a namespace statement whose receiving table already binds its name to
\* a namespace node gets the existing symbol and the same exports table
\* object, a locals table no other node has, and records no duplicate; in the
\* script, in a block namespace and after a blockless namespace, dotted or not.
C11_NamespaceMerging ==
    \A i \in MergeCases :
        LET e == bindLog[i]
            first == NodeOfSymbol(e.existing)
        IN /\ nodeSymbol[e.node] = e.existing
           /\ nodeExports[e.node] # NoTable
           /\ nodeExports[e.node] = nodeExports[first]
           /\ nodeLocals[e.node] # NoTable
           /\ \A m \in 0..Len(bindAst) :
                 /\ nodeExports[m] # nodeLocals[e.node]
                 /\ (m # e.node) => (nodeLocals[m] # nodeLocals[e.node])
           /\ ~DuplicatesRecorded(e.table, SymbolOfNode(e.node))

\* The nodes bindNode has handled without raising.
BoundNodes == { n \in 1..Len(bindAst) : n < bindNext /\ ~(raised /\ n = bindNext - 1) }

LogOf(n) == bindLog[CHOOSE i \in 1..Len(bindLog) : bindLog[i].node = n]

InInterface(n) == KindOf(bindAst[n].parent) = "InterfaceStatement"

\* C12 as stated: once the file is bound, every declaration node has a type
\* symbol whose node is that declaration node.
C12_EveryDeclarationOwnsItsSymbol ==
    bindPhase = "bound" =>
        \A n \in 1..Len(bindAst) :
            nodeSymbol[n] # None /\ NodeOfSymbol(nodeSymbol[n]) = n

\* C12, amended: every bound declaration node has one type symbol whose node
\* is itself, except that an operation inside an interface has no symbol and
\* a namespace whose name is already bound in the exports of the current
\* namespace has the symbol found there, whose node is the earlier declaration.
C12_DeclarationSymbols ==
    \A n \in BoundNodes :
        CASE KindOf(n) = "OperationStatement" /\ InInterface(n) -> nodeSymbol[n] = None
          [] KindOf(n) = "NamespaceStatement" /\ LogOf(n).found # None ->
                 /\ nodeSymbol[n] = LogOf(n).found
                 /\ NodeOfSymbol(nodeSymbol[n]) < n
                 /\ nodeSymbol[NodeOfSymbol(nodeSymbol[n])] = nodeSymbol[n]
          [] OTHER -> nodeSymbol[n] = SymbolOfNode(n)

\* Witness of C12: a bound file with a template parameter, an operation
\* inside an interface and a namespace merged into an earlier one.
C12_Witness ==
    /\ bindPhase = "bound"
    /\ \E n \in BoundNodes : KindOf(n) = "OperationStatement" /\ InInterface(n)
    /\ \E n \in BoundNodes :
          /\ KindOf(n) = "NamespaceStatement"
          /\ LogOf(n).found # None
          /\ KindOf(NodeOfSymbol(LogOf(n).found)) = "NamespaceStatement"
    /\ \E n \in BoundNodes : KindOf(n) \notin {"OperationStatement", "NamespaceStatement"}

----------------------------------------------------------------------------
(* Properties of external-module binding, over SpecJs *)

\* The entries the loop has handled, and those of them that are decorators.
HandledExports == 1..(jsNext - 1)
IsDecoratorExport(i) ==
    LET e == jsModule.entries[i]
    IN /\ e.isFunction
       /\ isFunctionName(e.key)
       /\ getFunctionName(e.key) \notin { <<"onValidate">>, <<"onEmit">> }
PartsOf(i) == nsParts(jsModule.rootNs, jsModule.entries[i].namespace)

\* The exports table reached from `table` by following the segments, 0 when a
\* segment is not bound to a namespace.
RECURSIVE Reach(_, _)
Reach(table, parts) ==
    IF parts = <<>> THEN table
    ELSE LET b == jsTables[table].map[Head(parts)]
         IN IF b = None \/ JsSymKind(b) # "type" THEN NoTable
            ELSE Reach(jsNamespaceNodes[NodeOfSymbol(b)].exports, Tail(parts))

\* Where a symbol is bound: table and name.
Holders(sym) ==
    { tn \in (1..Len(jsTables)) \X JsNames : jsTables[tn[1]].map[tn[2]] = sym }

\* The distinct segment paths under which a handled decorator is bound.
SegmentPaths ==
    UNION { { SubSeq(PartsOf(i), 1, k) : k \in 1..Len(PartsOf(i)) } :
              i \in { j \in HandledExports : IsDecoratorExport(j) } }

\* C13: each handled `$f` function other than $onValidate and $onEmit has
\* exactly one decorator symbol, named `@f`, in the table reached through the
\* segments of the module's namespace and then of its own; any other export
\* has none; one namespace node is made per distinct segment path; the
\* $onValidate function is registered as a callback.
C13_JsDecoratorBinding ==
    /\ \A i \in HandledExports :
          IF IsDecoratorExport(i)
          THEN /\ Reach(1, PartsOf(i)) # NoTable
               /\ Holders(DecoratorSymbol(i)) =
                     { <<Reach(1, PartsOf(i)),
                         DecoratorName(Tail(jsModule.entries[i].key))>> }
          ELSE Holders(DecoratorSymbol(i)) = {}
    /\ Len(jsNamespaceNodes) = Cardinality(SegmentPaths)
    /\ \A t \in 1..Len(jsTables) : jsTables[t].duplicates = <<>>
    /\ validateCbs =
          SelectSeq([i \in 1..Len(jsModule.entries) |-> i],
                    LAMBDA i : /\ i \in HandledExports
                               /\ jsModule.entries[i].isFunction
                               /\ jsModule.entries[i].key = Dollar(<<"onValidate">>))

\* Witness of C13: a bound module whose namespace is A, with two decorators
\* under A.A.B sharing its two synthesized nodes below A, and a registered
\* $onValidate function.
C13_Witness ==
    /\ jsPhase = "bound"
    /\ jsModule.rootNs = <<"A">>
    /\ Len(jsNamespaceNodes) = 3
    /\ Len(validateCbs) = 1
    /\ Cardinality({ i \in HandledExports :
                       IsDecoratorExport(i) /\ PartsOf(i) = <<<<"A">>, <<"A">>, <<"B">>>> }) = 2

----------------------------------------------------------------------------
(* Properties of the parser, over SpecParse *)

Parsed == parseOutput.done

FirstNewLineAfter(n) ==
    IF \E k \in (n + 1)..Len(parseInput) : parseInput[k] = "NewLine"
    THEN CHOOSE k \in (n + 1)..Len(parseInput) :
            /\ parseInput[k] = "NewLine"
            /\ \A h \in (n + 1)..(k - 1) : parseInput[h] # "NewLine"
    ELSE Len(parseInput) + 1

\* C15: directives are newline-terminated: when parseDirectiveExpression
\* returns, every token it has passed that lies after the first new line
\* following the directive's name is itself a new line, so the tokens of the
\* next line are left to the following statement or list item (stated for
\* the directives that have a name).
C15_DirectivesEndAtNewLine ==
    Parsed =>
        \A d \in DOMAIN parseOutput.directives :
            LET directive == parseOutput.directives[d] IN
            directive.name # directive.pos =>
                \A k \in (FirstNewLineAfter(directive.name) + 1)..(directive.end - 1) :
                    parseInput[k] = "NewLine"

\* C16 as stated: within one parse the error routine never records two
\* diagnostics with the same real position, consecutive or not.
C16_NoTwoErrorsAtOnePosition ==
    Parsed =>
        \A i, j \in DOMAIN parseOutput.parseDiagnostics :
            i # j => parseOutput.parseDiagnostics[i].realPos # parseOutput.parseDiagnostics[j].realPos

\* C16: within one parse the error routine never records two diagnostics
\* one after the other with the same real position.
C16_NoTwoConsecutiveErrorsAtOnePosition ==
    Parsed =>
        \A i \in DOMAIN parseOutput.parseDiagnostics :
            i + 1 \in DOMAIN parseOutput.parseDiagnostics =>
                parseOutput.parseDiagnostics[i].realPos # parseOutput.parseDiagnostics[i + 1].realPos

\* Two diagnostics share a real position with another one recorded between
\* them.
C16_Witness ==
    /\ Parsed
    /\ \E i, j \in DOMAIN parseOutput.parseDiagnostics :
        /\ j > i + 1
        /\ parseOutput.parseDiagnostics[i].realPos = parseOutput.parseDiagnostics[j].realPos

\* C17: every decorator parsed in front of an item that cannot carry
\* decorators (the decorators handed to reportInvalidDecorators) has an
\* invalid-decorator-location diagnostic at its position in the script's
\* parse diagnostics.
C17_InvalidDecoratorsReported ==
    Parsed =>
        \A decorator \in parseOutput.forbidden :
            \E d \in DOMAIN parseOutput.parseDiagnostics :
                /\ parseOutput.parseDiagnostics[d].code = "invalid-decorator-location"
                /\ parseOutput.parseDiagnostics[d].pos = decorator

\* The statement-order violations of the statements returned, by the claim's
\* rules: statement k is a blockless namespace after another one, a
\* blockless namespace after a statement that is neither an import nor a
\* blockless namespace, or an import after a statement that is not an import.
OrderViolations ==
    LET S == parseOutput.statements IN
    {<<"multiple-blockless-namespace", k>> : k \in
        {k \in DOMAIN S : S[k].blockless /\ \E h \in 1..(k - 1) : S[h].blockless}}
    \cup
    {<<"blockless-namespace-first", k>> : k \in
        {k \in DOMAIN S : S[k].blockless /\
            \E h \in 1..(k - 1) : ~S[h].blockless /\ S[h].kind # "ImportStatement"}}
    \cup
    {<<"import-first", k>> : k \in
        {k \in DOMAIN S : S[k].kind = "ImportStatement" /\
            \E h \in 1..(k - 1) : S[h].kind # "ImportStatement"}}

OrderDiagnostics ==
    {d \in DOMAIN parseOutput.parseDiagnostics :
        parseOutput.parseDiagnostics[d].code \in
            {"multiple-blockless-namespace", "blockless-namespace-first", "import-first"}}

\* C18: every statement-order violation at the top level of the script has
\* its own diagnostic: the order errors the parser asked for are the
\* violations of the statements returned, and the parse diagnostics hold one
\* diagnostic of the same code per violation.
C18_OrderViolationsFlagged ==
    Parsed =>
        /\ Len(parseOutput.violations) = Cardinality(OrderViolations)
        /\ \A code \in {"multiple-blockless-namespace", "blockless-namespace-first",
                        "import-first"} :
            Cardinality({d \in OrderDiagnostics :
                            parseOutput.parseDiagnostics[d].code = code})
            >= Cardinality({v \in OrderViolations : v[1] = code})

\* The diagnostics of parseExpected for a punctuation token that is missing
MissingPunctuation ==
    {d \in DOMAIN parseOutput.parseDiagnostics :
        /\ parseOutput.parseDiagnostics[d].code = "token-expected"
        /\ isPunctuation(parseOutput.parseDiagnostics[d].expected)}

\* C19 as stated: whenever the parser has reported that an expected
\* punctuation token is missing, the script returned has printable = false.
C19_MissingPunctuationClearsPrintable ==
    Parsed => (MissingPunctuation # {} => ~parseOutput.printable)

\* C19: the script returned has printable = false exactly when the error
\* routine has recorded a diagnostic that is not marked printable, and the
\* report of a missing punctuation token by parseExpected is marked
\* printable.
C19_PrintableFlag ==
    Parsed =>
        /\ parseOutput.printable <=>
                \A d \in DOMAIN parseOutput.parseDiagnostics :
                    parseOutput.parseDiagnostics[d].printable
        /\ \A d \in MissingPunctuation : parseOutput.parseDiagnostics[d].printable

\* A punctuation token was reported missing and the script is printable.
C19_Witness ==
    /\ Parsed
    /\ MissingPunctuation # {}
    /\ parseOutput.printable

----------------------------------------------------------------------------
(* Properties of the checker's cycle detection, over SpecCheck *)

Checked ==
    /\ checkNext = Len(checkInput.heritage) + 1
    /\ checkInput.heritage # <<>>
    /\ checkInput.property.owner # 0 => propertyType # 0

\* The models reached from model m along k or more links of the function
\* `link` (0 for no link)
RECURSIVE Along(_, _, _)
Along(link, m, k) ==
    IF k = 0 \/ link[m] = 0 THEN {}
    ELSE {link[m]} \cup Along(link, link[m], k - 1)

HeritageTarget == [m \in DOMAIN checkInput.heritage |-> checkInput.heritage[m].target]

\* The models on a cycle of `extends`/`is` links
OnCycle == {m \in DOMAIN HeritageTarget : m \in Along(HeritageTarget, m, Len(HeritageTarget))}

\* The first model, in source order, of each cycle
FirstOfCycles ==
    {m \in OnCycle : \A o \in Along(HeritageTarget, m, Len(HeritageTarget)) : m <= o}

\* C20: when the models are checked there is exactly one diagnostic per
\* cycle of extends/is links, "Model type 'X' recursively references itself
\* as a base type." for the first model X of the cycle in source order,
\* no model is reachable from itself along baseModel links, and a property
\* whose type is a model adds no diagnostic.
C20_RecursiveBaseTypes ==
    Checked =>
        /\ Len(checkDiagnostics) = Cardinality(FirstOfCycles)
        /\ \A m \in FirstOfCycles :
            \E d \in DOMAIN checkDiagnostics : checkDiagnostics[d] = RecursiveBase(m)
        /\ \A m \in DOMAIN baseModel : m \notin Along(baseModel, m, Len(baseModel))

\* Two models name each other, one with `is` and one with `extends`, and a
\* model that is not on the cycle has a property whose type is on it.
C20_Witness ==
    /\ Checked
    /\ \E a, b \in OnCycle :
        /\ a # b
        /\ checkInput.heritage[a] = [kind |-> "is", target |-> b]
        /\ checkInput.heritage[b] = [kind |-> "extends", target |-> a]
    /\ checkInput.property.owner \notin OnCycle
    /\ propertyType \in OnCycle
    /\ Len(checkDiagnostics) = 1

----------------------------------------------------------------------------
(* Properties of single reportDiagnostic calls, over SpecDiag *)

\* What the last reportDiagnostic call added to the list.
AddedByLastCall == SubSeq(diagnostics, Len(lastCall.pre) + 1, Len(diagnostics))

\* C28: a reportDiagnostic(d) call adds d at most once, whatever d's code,
\* severity and target: after the call the list holds what it held before,
\* followed by nothing, by d alone, or by a suppress-error diagnostic and d.
C28_AddedAtMostOnce ==
    lastCall.valid
    => /\ Len(diagnostics) >= Len(lastCall.pre)
       /\ SubSeq(diagnostics, 1, Len(lastCall.pre)) = lastCall.pre
       /\ \/ AddedByLastCall = <<>>
          \/ AddedByLastCall = <<lastCall.d>>
          \/ /\ Len(AddedByLastCall) = 2
             /\ AddedByLastCall[1].code = "suppress-error"
             /\ AddedByLastCall[2] = lastCall.d

\* C29: reportDiagnostic returns normally for every diagnostic whose target is
\* a node of a tree the parser returned, a tree with a directive of a name other
\* than suppress included: the call either appends or suppresses the diagnostic.
C29_ReportDiagnosticNeverRaises ==
    (lastCall.valid /\ lastCall.d.target.kind = "node")
    => /\ ~raised
       /\ Len(diagnostics) >= Len(lastCall.pre)

----------------------------------------------------------------------------
(* Properties of createProgram after loadMain, over SpecLoad and SpecLoadFair *)

\* C26: once the compiler-version-mismatch diagnostic has been reported,
\* createProgram makes no host.getJsImport call (no emitter or other external
\* module is imported) and invokes no callback registered with the program.
C26_MismatchAbortsCompilation ==
    [][compilerCheck = "mismatch" =>
          /\ \A path \in JsPaths :
                counts'[<<"getJsImport", path>>] = counts[<<"getJsImport", path>>]
          /\ (invokedCbs)' = <<>>]_vars

\* C30: with a host whose calls all return, the loading phase of createProgram
\* finishes, whatever the import graph of the files is (cycles and a file that
\* imports itself included), and the checker is then run.
C30_LoadingTerminates == <>(pc = "checked")

\* The loading phase ends: createProgram reaches the checker or an exception
\* has left it.
LoadingEndsOrRaises == <>(pc = "checked" \/ raised)

----------------------------------------------------------------------------
(* Properties of namespaces that collide with other declarations, over SpecBind *)

\* The namespace statements bound so far whose name was already bound, in the
\* exports looked up and in the table receiving the declarations of the scope
\* alike, to a declaration that is not a namespace.
NonNamespaceCollisions ==
    { i \in 1..Len(bindLog) :
        /\ bindLog[i].found # None
        /\ bindLog[i].found = bindLog[i].existing
        /\ KindOf(NodeOfSymbol(bindLog[i].found)) # "NamespaceStatement" }

\* C25: a namespace statement whose name is already bound to a declaration that
\* is not a namespace is not aliased to it: the node has its own symbol and an
\* exports table no other node has, the collision is recorded as a duplicate,
\* and the declarations inside the namespace are bound without an assertion
\* failure.
C25_NamespaceMergesOnlyWithNamespace ==
    \A i \in NonNamespaceCollisions :
        LET e == bindLog[i]
        IN /\ nodeSymbol[e.node] = SymbolOfNode(e.node)
           /\ nodeExports[e.node] # NoTable
           /\ \A m \in 0..Len(bindAst) : (m # e.node) => (nodeExports[m] # nodeExports[e.node])
           /\ DuplicatesRecorded(e.table, SymbolOfNode(e.node))
           /\ ~raised

\* C25, the assertion alone: after such a collision no compilerAssert fails.
NoAssertionAfterCollision == (NonNamespaceCollisions # {}) => ~raised

----------------------------------------------------------------------------
(* Properties of colliding usings, over SpecUsing *)

\* The using statements that bring a name into scope, in order.
UsingsOf(name) ==
    { i \in DOMAIN usingFile.usings : name \in usingFile.exports[usingFile.usings[i]] }

\* The names two using statements of the file bring into scope.
CollidingNames == { name \in Names : Cardinality(UsingsOf(name)) >= 2 }

NameIndex(name) == CHOOSE k \in DOMAIN NameOrder : NameOrder[k] = name

FirstUsingSymbol(name) ==
    UsingSymbol(CHOOSE i \in UsingsOf(name) : \A j \in UsingsOf(name) : i <= j, NameIndex(name))

\* C22: when two using statements of the file bring the same name into scope
\* (one namespace named twice, or two namespaces that both export the name),
\* the compilation fails with a diagnostic, whether the file refers to the
\* name or not, and the first using symbol bound to the name is marked as a
\* duplicate.
C22_CollidingUsingsRejected ==
    (usingPhase \in {"reported", "checked"} /\ CollidingNames # {})
    => /\ hasError
       /\ diagnostics # <<>>
       /\ \A name \in CollidingNames :
             /\ tables[1].map[name] = FirstUsingSymbol(name)
             /\ FirstUsingSymbol(name) \in usingDuplicate

\* `using N; using M;` where N and M both export A, in a file that refers to
\* no name: the file is checked and the compilation has failed.
C22_Witness ==
    /\ usingPhase = "checked"
    /\ usingFile.usings = <<"N", "M">>
    /\ "A" \in usingFile.exports["N"] \cap usingFile.exports["M"]
    /\ usingFile.references = {}
    /\ hasError
    /\ diagnostics # <<>>

----------------------------------------------------------------------------
(* Properties of the service decorators, over SpecService *)

\* The codes of the diagnostics the i-th decorator call reported.
ReportedBy(i) ==
    { diagnostics[d].code :
        d \in (serviceApplied[i].pre + 1) ..
              (IF i < Len(serviceApplied) THEN serviceApplied[i + 1].pre ELSE Len(diagnostics)) }

DuplicateCodes ==
    {"service-title-duplicate", "service-host-duplicate", "service-version-duplicate",
     "service-namespace-duplicate"}

\* C27: applying @serviceHost when a service host has already been set reports
\* service-host-duplicate, and applying it when no host has been set reports no
\* duplicate diagnostic of a service detail, whatever title and version were
\* set before.
C27_ServiceHostSetOnce ==
    \A i \in DOMAIN serviceApplied :
        serviceApplied[i].decorator = "serviceHost" =>
            /\ serviceApplied[i].before.host # "undefined"
                  => "service-host-duplicate" \in ReportedBy(i)
            /\ serviceApplied[i].before.host = "undefined"
                  => ReportedBy(i) \cap (DuplicateCodes \ {"service-namespace-duplicate"}) = {}


----------------------------------------------------------------------------
(* Properties of the checker's model statements, over SpecModel *)

CheckingDone == nextStatement > Len(StatementOrder) /\ checking = <<>>

\* The declaration was never instantiated: no reference named it with arguments.
NeverInstantiated(name) ==
    \A arg \in TemplateArguments : symbolLinks[name].instantiations[arg] = 0

\* The decorator invocations whose target is a type of the declaration or a
\* member of one.
CallsOn(name) ==
    {i \in DOMAIN decoratorCalls : types[decoratorCalls[i].target.type].name = name}

\* C21: for a declaration with template parameters that is never
\* instantiated, no decorator attached to the declaration or to any of its
\* members is invoked: zero calls in total.
C21_UninstantiatedTemplateRunsNoDecorators ==
    \A name \in DOMAIN declarations :
        declarations[name].templated /\ NeverInstantiated(name) => CallsOn(name) = {}

\* A decorated template with a decorated member that the whole program
\* never instantiates, after the program was checked.
C21_Witness ==
    /\ CheckingDone
    /\ declarations["A"].templated
    /\ declarations["A"].decorators # <<>>
    /\ declarations["A"].properties[1].decorators # <<>>
    /\ NeverInstantiated("A")
    /\ types # <<>>


\* The model types that the spreads of a model type refer to, in order.
SpreadSources(id) ==
    [i \in DOMAIN declarations[types[id].name].spreads |->
        instantiations(symbolLinks, declarations[types[id].name].spreads[i], types[id].arg)]

\* The model type that the `is` clause of a model type refers to, 0 without.
IsSource(id) ==
    IF declarations[types[id].name].is = NoRef THEN 0
    ELSE instantiations(symbolLinks, declarations[types[id].name].is, types[id].arg)

PropertyNames(id) == {types[id].properties[i].name : i \in DOMAIN types[id].properties}

\* The models a model type takes properties from have pairwise distinct
\* property names.
DistinctSources(id) ==
    LET S == SpreadSources(id) IN
    /\ \A i, j \in DOMAIN S : i # j => PropertyNames(S[i]) \cap PropertyNames(S[j]) = {}
    /\ IsSource(id) # 0 =>
            \A i \in DOMAIN S : PropertyNames(S[i]) \cap PropertyNames(IsSource(id)) = {}

Invoked(decorator, target) ==
    \E i \in DOMAIN decoratorCalls :
        decoratorCalls[i] = [decorator |-> decorator, target |-> target]

\* The property of model type `id` is the one copy of property q of `source`.
IsCopyOf(id, p, source, q) ==
    /\ p.name = q.name
    /\ p.sourceProperty = [type |-> source, name |-> q.name]
    /\ \A k \in DOMAIN q.decorators : Invoked(q.decorators[k], PropertyTarget(id, p.name))

\* C23: a checked model that spreads models with pairwise distinct property
\* names has exactly one property per property of the spread models; the
\* copy carries a sourceProperty link to the property it was copied from,
\* and every decorator of the original was invoked with the copy as target.
C23_SpreadCopiesDecoratedProperties ==
    \A id \in DOMAIN types :
        types[id].finished /\ DistinctSources(id) =>
            LET S == SpreadSources(id)
                P == types[id].properties
            IN  /\ \A i \in DOMAIN S : \A k \in DOMAIN types[S[i]].properties :
                    /\ Cardinality({n \in DOMAIN P :
                                        P[n].name = types[S[i]].properties[k].name}) = 1
                    /\ \E n \in DOMAIN P : IsCopyOf(id, P[n], S[i], types[S[i]].properties[k])
                /\ \A n \in DOMAIN P :
                    P[n].sourceProperty # NoSource =>
                        \E i \in DOMAIN S : P[n].sourceProperty.type = S[i]

\* model C { ...A, ...B } checked, A and B with a decorated property each:
\* C has the two copies and the decorator has marked both.
C23_Witness ==
    /\ CheckingDone
    /\ declarations["C"].is = NoRef
    /\ Len(declarations["C"].spreads) = 2
    /\ declarations["A"].properties[1].decorators # <<>>
    /\ declarations["B"].properties[1].decorators # <<>>
    /\ LET id == symbolLinks["C"].declaredType IN
        /\ DistinctSources(id)
        /\ SpreadSources(id)[1] # SpreadSources(id)[2]
        /\ Len(types[id].properties) >= 2
        /\ \A n \in DOMAIN types[id].properties :
                Invoked("blue", PropertyTarget(id, types[id].properties[n].name))


\* The model types of a declaration instantiated with an argument.
TypesOf(name, arg) == {id \in DOMAIN types : types[id].name = name /\ types[id].arg = arg}

\* Each declaration has at most one type per argument.
InstantiatedOnce ==
    \A name \in Models, arg \in TemplateArguments \cup {"none"} :
        Cardinality(TypesOf(name, arg)) <= 1

\* A property that a model statement declares with a reference to a model
\* has the one type of that model.
DeclaredPropertyTypes ==
    \A id \in DOMAIN types :
        LET decl == declarations[types[id].name] IN
        \A k \in DOMAIN decl.properties, n \in DOMAIN types[id].properties :
            decl.properties[k].ref.name \in Models
            /\ types[id].properties[n].name = decl.properties[k].name
            => /\ types[id].properties[n].type.kind = "Model"
               /\ types[id].properties[n].type.id # 0
               /\ TypesOf(decl.properties[k].ref.name,
                          ArgumentOf(decl.properties[k].ref, types[id].arg))
                    = {types[id].properties[n].type.id}

\* A property that a checked model has from the model it `is` has the type
\* it has there.
InheritedPropertyTypes ==
    \A id \in DOMAIN types :
        types[id].finished /\ IsSource(id) # 0 =>
            \A k \in DOMAIN types[IsSource(id)].properties :
                \E n \in DOMAIN types[id].properties :
                    /\ types[id].properties[n].name = types[IsSource(id)].properties[k].name
                    /\ types[id].properties[n].type = types[IsSource(id)].properties[k].type

\* C24: checking terminates, also when a template's body refers back to a
\* model that is an instance of it; each (template, argument) pair has one
\* type, and a property that refers to a model has the one type of that
\* model in every instance and in every model that is an instance.
C24_RecursiveInstantiationTerminates ==
    /\ <>CheckingDone
    /\ [](InstantiatedOnce /\ DeclaredPropertyTypes /\ InheritedPropertyTypes)

\* model B is A<string>  model C is A<int32>  model A<T> { foo: T; next: B },
\* checked: two instances of A, and next is B's type in both and in B and C.
C24_Witness ==
    /\ CheckingDone
    /\ declarations["A"].templated
    /\ Len(declarations["A"].properties) = 2
    /\ declarations["A"].properties[2].ref = Ref("B", "none")
    /\ declarations["B"].is = Ref("A", "string")
    /\ declarations["C"].is = Ref("A", "int32")
    /\ declarations["C"].spreads = <<>>
    /\ Cardinality(TypesOf("A", "string")) = 1
    /\ Cardinality(TypesOf("A", "int32")) = 1
    /\ \A id \in DOMAIN types :
            /\ types[id].finished
            /\ Len(types[id].properties) >= 2
            /\ types[id].properties[2].name = "next"
            /\ types[id].properties[2].type = ModelType("B", symbolLinks["B"].declaredType)

============================================================================
